---- MODULE Spec2Model ----
(***************************************************************************)
(* VID: 18-byte time-ordered, HMAC-signed identifiers.                     *)
(*                                                                         *)
(* The model covers the generator's clock+sequence state machine           *)
(* (VIDGenerator), the payload layout (encodePayload), the signer          *)
(* (HMACSigner), the verifier (VIDVerifier) and the facade (VID) that      *)
(* composes them.                                                          *)
(*                                                                         *)
(* Numbers.  JavaScript numbers hold integers exactly up to 2^53; the      *)
(* timestamps of the program reach 2^48 and beyond.  A millisecond value   *)
(* is therefore kept as four base-65536 limbs, most significant first:     *)
(* <<l3, l2, l1, l0>> stands for l3*2^48 + l2*2^32 + l1*2^16 + l0.         *)
(*                                                                         *)
(* HMAC.  HMAC-SHA256 is an ideal keyed function: byte i of the digest of  *)
(* payload p under secret k is the term <<id of k, p, i>>, equal to        *)
(* another digest byte only when key, payload and position all agree.      *)
(***************************************************************************)
EXTENDS Integers, Sequences, FiniteSets, TLC

VARIABLES
    keys,               \* VID.keys: per facade, keyVersion -> derived secret
    currentKeyVersion,  \* VID.currentKeyVersion, per facade
    nodeId,             \* VID.nodeId, per facade (resolved uint16)
    lastTimestamp,      \* VIDGenerator.lastTimestamp, per facade's generator
    sequence,           \* VIDGenerator.sequence, per facade's generator
    pc,                 \* where each generator's generate() call stands
    waited,             \* Date.now() minus its value when the wait began
    clock,              \* what TimeUtils.now() returns at this instant
    lastIssued,         \* history: binary of the identifier last returned
    prevIssued,         \* history: binary of the identifier returned before
    issued,             \* history: every identifier returned (bounded specs)
    outcome,            \* history: how the last finished generate() ended
    clamped,            \* history: the last finished call read a regressed clock
    frozen,             \* history: the clock moved only during overflow waits
    calls,              \* history: generate() calls begun while frozen
    waits,              \* history: overflow waits entered while frozen
    budget,             \* generate() calls the callers still make (bounded specs)
    checked,            \* history: the last verification and its result
    heap                \* byte arrays and identifier values callers hold

vars == <<keys, currentKeyVersion, nodeId, lastTimestamp, sequence, pc,
          waited, clock, lastIssued, prevIssued, issued, outcome, clamped,
          frozen, calls, waits, budget, checked, heap>>

genVars == <<lastTimestamp, sequence, pc, waited, lastIssued, prevIssued,
             outcome, clamped>>

countVars == <<frozen, calls, waits>>

facadeVars == <<keys, currentKeyVersion, nodeId>>

(***************************************************************************)
(* Bounds of the model.                                                    *)
(***************************************************************************)
MaxTick == 1        \* clock readings per era: base .. base + MaxTick
MaxFaults == 1      \* clock-fault failures followed by yet another wait
WallStep == 2500    \* Date.now() advances in steps of WallStep ms
MaxCalls == 3       \* generate() calls made in all, in the bounded specs
MaxObjects == 3     \* arrays and identifier values on the heap

(***************************************************************************)
(* Program constants.                                                      *)
(***************************************************************************)
MAX_UINT16 == 65535
MAX_UINT8 == 255
MAX_SEQUENCE == MAX_UINT16
MAX_CLOCK_WAIT_MS == 5000
SIGNATURE_BYTES == 7
PAYLOAD_BYTES == 11
PAYLOAD_END == 11
VID_BYTE_LENGTH == 18
VID_STRING_LENGTH == 29
MIN_SECRET_BYTES == 32
MIN_PAYLOAD_BYTES == 1
DIGEST_BYTES == 32
TIMESTAMP_HIGH_MULTIPLIER == 65536

(***************************************************************************)
(* Millisecond values as limbs.                                            *)
(***************************************************************************)
Ms(l3, l2, l1, l0) == <<l3, l2, l1, l0>>

MsZero == Ms(0, 0, 0, 0)

\* a < b on millisecond values
MsLess(a, b) ==
    \E i \in 1..4 : a[i] < b[i] /\ \A j \in 1..(i - 1) : a[j] = b[j]

MsLeq(a, b) == a = b \/ MsLess(a, b)

\* 0xffffffffffff
MAX_TIMESTAMP == Ms(0, MAX_UINT16, MAX_UINT16, MAX_UINT16)

\* Math.floor(x / 0x10000) % 2^32, as DataView.setUint32 stores it
High32(x) == <<x[2], x[3]>>

\* x % 0x10000
Low16(x) == x[4]

\* x + n for a small n >= 0, carrying from limb to limb
MsPlus(x, n) ==
    LET s0 == x[4] + n
        s1 == x[3] + (s0 \div TIMESTAMP_HIGH_MULTIPLIER)
        s2 == x[2] + (s1 \div TIMESTAMP_HIGH_MULTIPLIER)
        s3 == x[1] + (s2 \div TIMESTAMP_HIGH_MULTIPLIER)
    IN  Ms(s3, s2 % TIMESTAMP_HIGH_MULTIPLIER, s1 % TIMESTAMP_HIGH_MULTIPLIER,
           s0 % TIMESTAMP_HIGH_MULTIPLIER)

(***************************************************************************)
(* Byte arrays are sequences; offset o of the program is index o + 1.      *)
(***************************************************************************)
\* DataView.setUint8: the value modulo 2^8
U8Bytes(v) == <<v % 256>>

\* DataView.setUint16: the value modulo 2^16, big-endian
U16Bytes_littleEndian(v) == <<v % 256, (v \div 256) % 256>>

U16Bytes(v) == <<(v \div 256) % 256, v % 256>>

\* DataView.getUint8 / getUint16 at a 0-based offset
getUint8(b, off) == b[off + 1]

getUint16(b, off) == b[off + 1] * 256 + b[off + 2]

\* Uint8Array.subarray(from, to), 0-based, to exclusive
subarray(b, from, to) == SubSeq(b, from + 1, to)

\* ByteUtils.concat
concat(a, b) == a \o b

\* byte-wise lexicographic "a sorts strictly before b" (memcmp order)
BytesBefore(a, b) ==
    \/ \E i \in 1..Len(a) :
          /\ i <= Len(b)
          /\ a[i] < b[i]
          /\ \A j \in 1..(i - 1) : a[j] = b[j]
    \/ Len(a) < Len(b) /\ \A j \in 1..Len(a) : a[j] = b[j]

(***************************************************************************)
(* Strings are sequences of characters.  A character is written as a       *)
(* string: itself when it is printable ASCII, a name otherwise.            *)
(***************************************************************************)
UpperCaseLetters ==
    <<"A", "B", "C", "D", "E", "F", "G", "H", "I", "J", "K", "L", "M",
      "N", "O", "P", "Q", "R", "S", "T", "U", "V", "W", "X", "Y", "Z">>

LowerCaseLetters ==
    <<"a", "b", "c", "d", "e", "f", "g", "h", "i", "j", "k", "l", "m",
      "n", "o", "p", "q", "r", "s", "t", "u", "v", "w", "x", "y", "z">>

Digits == <<"0", "1", "2", "3", "4", "5", "6", "7", "8", "9">>

\* a few characters beyond letters and digits, with their UTF-16 codes
OtherCharCodes ==
    (" " :> 32) @@ ("TAB" :> 9) @@ ("!" :> 33) @@ ("-" :> 45)
    @@ ("NBSP" :> 160) @@ ("E-acute" :> 201) @@ ("sharp-s" :> 223)
    @@ ("e-acute" :> 233) @@ ("dotless-i" :> 305)

Range(seq) == {seq[i] : i \in 1..Len(seq)}

IndexOf(seq, x) == CHOOSE i \in 1..Len(seq) : seq[i] = x

\* the UTF-16 code of every character of the model
CharCodes ==
    [c \in Range(UpperCaseLetters) |-> 64 + IndexOf(UpperCaseLetters, c)]
    @@ [c \in Range(LowerCaseLetters) |-> 96 + IndexOf(LowerCaseLetters, c)]
    @@ [c \in Range(Digits) |-> 47 + IndexOf(Digits, c)]
    @@ OtherCharCodes

\* String.prototype.charCodeAt, on one character
charCodeAt(c) == CharCodes[c]

\* String.prototype.toUpperCase on one character: Unicode case mapping,
\* which turns one character into two for the sharp s
UpperOf(c) ==
    IF c \in Range(LowerCaseLetters)
        THEN <<UpperCaseLetters[IndexOf(LowerCaseLetters, c)]>>
    ELSE IF c = "sharp-s" THEN <<"S", "S">>
    ELSE IF c = "dotless-i" THEN <<"I">>
    ELSE IF c = "e-acute" THEN <<"E-acute">>
    ELSE <<c>>

RECURSIVE toUpperCase(_)
toUpperCase(s) ==
    IF s = <<>> THEN <<>> ELSE UpperOf(Head(s)) \o toUpperCase(Tail(s))

\* String.prototype.trim: strips white space, here space, TAB and NBSP
trim(s) ==
    LET kept == {i \in 1..Len(s) : s[i] \notin {" ", "TAB", "NBSP"}} IN
    IF kept = {} THEN <<>>
    ELSE SubSeq(s, CHOOSE i \in kept : \A j \in kept : i <= j,
                   CHOOSE i \in kept : \A j \in kept : j <= i)

\* /^[A-Z2-7]{n}$/.test(s)
RegexUpperBase32(s, n) ==
    /\ Len(s) = n
    /\ \A i \in 1..Len(s) :
          \/ charCodeAt(s[i]) \in charCodeAt("A")..charCodeAt("Z")
          \/ charCodeAt(s[i]) \in charCodeAt("2")..charCodeAt("7")

(***************************************************************************)
(* Base32Encoder.  The accumulator `value` is a 32-bit integer under << ,  *)
(* | and >>>; it is kept as two 16-bit halves <<high, low>>.               *)
(***************************************************************************)
ALPHABET ==
    UpperCaseLetters \o <<"2", "3", "4", "5", "6", "7">>

BITS_PER_CHAR == 5
BITS_PER_BYTE == 8
VID_BINARY_BYTES == 18
MAX_ASCII == 127

\* Math.ceil((VID_BINARY_BYTES * BITS_PER_BYTE) / BITS_PER_CHAR)
VID_STRING_CHARS ==
    (VID_BINARY_BYTES * BITS_PER_BYTE + BITS_PER_CHAR - 1) \div BITS_PER_CHAR

CHAR_MASK == 2^BITS_PER_CHAR - 1

BYTE_MASK == 2^BITS_PER_BYTE - 1

\* (value << n) | x, for 0 <= x < 2^n and n <= 8
ShiftInOr(value, n, x) ==
    <<(value[1] * 2^n + (value[2] * 2^n) \div 65536) % 65536,
      ((value[2] * 2^n) % 65536) + x>>

\* (value >>> n) & mask, for n < 16 and mask < 2^16
ShiftOutAnd(value, n, mask) ==
    ((value[1] % 2^n) * 2^(16 - n) + value[2] \div 2^n) % (mask + 1)

DECODE_LOOKUP_noSeven ==
    [charCode \in 0..MAX_ASCII |->
        IF \E i \in 1..(Len(ALPHABET) - 1) :
               charCodeAt(ALPHABET[i]) = charCode
            THEN (CHOOSE i \in 1..Len(ALPHABET) :
                     charCodeAt(ALPHABET[i]) = charCode) - 1
            ELSE -1]

\* DECODE_LOOKUP: for each code up to MAX_ASCII, the 0-based place of its
\* character in ALPHABET, or -1
DECODE_LOOKUP ==
    [charCode \in 0..MAX_ASCII |->
        IF \E i \in 1..Len(ALPHABET) : charCodeAt(ALPHABET[i]) = charCode
            THEN (CHOOSE i \in 1..Len(ALPHABET) :
                     charCodeAt(ALPHABET[i]) = charCode) - 1
            ELSE -1]

\* a call that returned v, a call that threw
Returned(v) == [ok |-> TRUE, value |-> v]

Raised(error) == [ok |-> FALSE, error |-> error]

\* encode: the inner while loop, one character for every 5 bits held
RECURSIVE encodeEmit(_, _, _)
encodeEmit(bits, value, output) ==
    IF bits >= BITS_PER_CHAR
        THEN encodeEmit(bits - BITS_PER_CHAR, value,
                 Append(output,
                     ALPHABET[ShiftOutAnd(value, bits - BITS_PER_CHAR,
                                          CHAR_MASK) + 1]))
        ELSE [bits |-> bits, output |-> output]

\* encode: the character for the bits left over, zero-padded on the right
FinalChar_unpadded(value, bits) == ALPHABET[ShiftOutAnd(value, 0, CHAR_MASK) + 1]

FinalChar(value, bits) ==
    ALPHABET[ShiftOutAnd(ShiftInOr(value, BITS_PER_CHAR - bits, 0), 0,
                         CHAR_MASK) + 1]

\* encode: the for loop from byte i (1-based) on, and the final character
RECURSIVE encodeFrom(_, _, _, _, _)
encodeFrom(input, i, bits, value, output) ==
    IF i > Len(input)
        THEN IF bits > 0 THEN Append(output, FinalChar(value, bits))
             ELSE output
        ELSE LET shifted == ShiftInOr(value, BITS_PER_BYTE, input[i])
                 emitted == encodeEmit(bits + BITS_PER_BYTE, shifted, output)
             IN  encodeFrom(input, i + 1, emitted.bits, shifted,
                            emitted.output)

\* Base32Encoder.encode
encode(input) ==
    IF Len(input) # VID_BINARY_BYTES THEN Raised("RangeError")
    ELSE Returned(encodeFrom(input, 1, 0, <<0, 0>>, <<>>))

\* decode: the for loop from character i (1-based) on
RECURSIVE decodeFrom(_, _, _, _, _)
decodeFrom(normalized, i, bits, value, output) ==
    IF i > Len(normalized)
        THEN IF Len(output) # VID_BINARY_BYTES THEN Raised("RangeError")
             ELSE Returned(output)
    ELSE IF charCodeAt(normalized[i]) > MAX_ASCII
        THEN [ok |-> FALSE, error |-> "Error", position |-> i - 1]
    ELSE IF DECODE_LOOKUP[charCodeAt(normalized[i])] = -1
        THEN [ok |-> FALSE, error |-> "Error", position |-> i - 1]
    ELSE LET shifted == ShiftInOr(value, BITS_PER_CHAR,
                            DECODE_LOOKUP[charCodeAt(normalized[i])])
             held == bits + BITS_PER_CHAR
         IN  IF held >= BITS_PER_BYTE
                 THEN decodeFrom(normalized, i + 1, held - BITS_PER_BYTE,
                          shifted,
                          Append(output,
                              ShiftOutAnd(shifted, held - BITS_PER_BYTE,
                                          BYTE_MASK)))
                 ELSE decodeFrom(normalized, i + 1, held, shifted, output)

decode_measuredBeforeUpperCasing(input) ==
    LET normalized == toUpperCase(trim(input)) IN
    IF Len(trim(input)) # VID_STRING_CHARS THEN Raised("RangeError")
    ELSE decodeFrom(normalized, 1, 0, <<0, 0>>, <<>>)

\* Base32Encoder.decode
decode(input) ==
    LET normalized == toUpperCase(trim(input)) IN
    IF Len(normalized) # VID_STRING_CHARS THEN Raised("RangeError")
    ELSE decodeFrom(normalized, 1, 0, <<0, 0>>, <<>>)

(***************************************************************************)
(* VIDGenerator.encodePayload                                              *)
(***************************************************************************)
encodePayload_sharedNode(keyVersion, timestamp, node, seq) ==
       U8Bytes(keyVersion)
    \o U16Bytes(High32(timestamp)[1]) \o U16Bytes(High32(timestamp)[2])
    \o U16Bytes(Low16(timestamp))
    \o U16Bytes(0)
    \o U16Bytes(seq)

encodePayload(keyVersion, timestamp, node, seq) ==
       U8Bytes(keyVersion)
    \o U16Bytes(High32(timestamp)[1]) \o U16Bytes(High32(timestamp)[2])
    \o U16Bytes(Low16(timestamp))
    \o U16Bytes(node)
    \o U16Bytes(seq)

\* the fields of a binary, read back at their offsets
KeyVersionOf(b) == getUint8(b, 0)

TimestampOf_low32(b) == Ms(0, 0, getUint16(b, 3), getUint16(b, 5))

TimestampOf(b) == Ms(0, getUint16(b, 1), getUint16(b, 3), getUint16(b, 5))

NodeIdOf(b) == getUint16(b, 7)

SequenceOf(b) == getUint16(b, 9)

PayloadOf(b) == subarray(b, 0, PAYLOAD_END)

(***************************************************************************)
(* HMACSigner                                                              *)
(***************************************************************************)
\* a secret is opaque key material of a known byte length
Secret(id, len) == [id |-> id, len |-> len]

\* VID.deriveKey: SHA-256 of the raw secret, always 32 bytes
deriveKey(rawSecret) == Secret(rawSecret, DIGEST_BYTES)

\* crypto.createHmac("sha256", secret).update(payload).digest()
hmacDigest_shortInput(payload, secret) ==
    [i \in 1..DIGEST_BYTES |->
        <<secret.id, SubSeq(payload, 1, Len(payload) - 1), i>>]

hmacDigest(payload, secret) ==
    [i \in 1..DIGEST_BYTES |-> <<secret.id, payload, i>>]

\* validatePayload / validateSecret: does sign() throw?
signThrows(payload, secret) ==
    \/ Len(payload) < MIN_PAYLOAD_BYTES
    \/ secret.len < MIN_SECRET_BYTES

\* HMACSigner.sign, where it does not throw
sign(payload, secret) == SubSeq(hmacDigest(payload, secret), 1, SIGNATURE_BYTES)

\* two bytes are the same value; a digest byte, a term, is never the same
\* as a byte given as a number (nobody guesses an ideal HMAC)
SameByte(x, y) == ToString(x) = ToString(y)

\* crypto.timingSafeEqual on buffers of equal length
timingSafeEqual(a, b) == \A i \in 1..Len(a) : SameByte(a[i], b[i])

\* HMACSigner.verify
verify_fullDigest(payload, signature, secret) ==
    IF Len(payload) < MIN_PAYLOAD_BYTES THEN FALSE
    ELSE IF secret.len < MIN_SECRET_BYTES THEN FALSE
    ELSE IF Len(signature) # DIGEST_BYTES THEN FALSE
    ELSE IF signThrows(payload, secret) THEN FALSE
    ELSE timingSafeEqual(hmacDigest(payload, secret), signature)

verify(payload, signature, secret) ==
    IF Len(payload) < MIN_PAYLOAD_BYTES THEN FALSE
    ELSE IF secret.len < MIN_SECRET_BYTES THEN FALSE
    ELSE IF Len(signature) # SIGNATURE_BYTES THEN FALSE
    ELSE IF signThrows(payload, secret) THEN FALSE
    ELSE IF Len(sign(payload, secret)) # Len(signature) THEN FALSE
    ELSE timingSafeEqual(sign(payload, secret), signature)

(***************************************************************************)
(* VIDVerifier                                                             *)
(***************************************************************************)
\* an input value with its run-time type
Input(type, value) == [type |-> type, value |-> value]

Valid == [valid |-> TRUE]

Invalid(reason) == [valid |-> FALSE, reason |-> reason]

\* BASE32_REGEX.test
BASE32_REGEX_anything(s) == TRUE

BASE32_REGEX(s) == RegexUpperBase32(s, 29)

\* normalizeToBinary on null or undefined
OnNullInput_raises(input) == Raised("TypeError")

OnNullInput(input) == [ok |-> FALSE, reason |-> "NULL_INPUT"]

\* normalizeToBinary, string branch
normalizeString(value) ==
    LET trimmed == toUpperCase(trim(value)) IN
    IF Len(trimmed) # VID_STRING_LENGTH
        THEN [ok |-> FALSE, reason |-> "INVALID_STRING_LENGTH"]
    ELSE IF ~BASE32_REGEX(trimmed)
        THEN [ok |-> FALSE, reason |-> "INVALID_STRING_CHARS"]
    ELSE IF ~decode(trimmed).ok
        THEN [ok |-> FALSE, reason |-> "DECODE_ERROR"]
    ELSE [ok |-> TRUE, binary |-> decode(trimmed).value]

\* VIDVerifier.normalizeToBinary; a VIDValue is given by the bytes its
\* toBinary() returns, a Buffer or ArrayBuffer by the bytes it holds
normalizeToBinary(input) ==
    IF input.type \in {"null", "undefined"} THEN OnNullInput(input)
    ELSE IF input.type = "VIDValue" THEN [ok |-> TRUE, binary |-> input.value]
    ELSE IF input.type = "string" THEN normalizeString(input.value)
    ELSE IF input.type \in {"Buffer", "Uint8Array", "ArrayBuffer"}
        THEN [ok |-> TRUE, binary |-> input.value]
    ELSE [ok |-> FALSE, reason |-> "UNSUPPORTED_TYPE"]

\* verifyDetailed, line 595: the key version is byte 0 of the binary
SelectKeyVersion_latest(binary, keyMap) ==
    CHOOSE v \in DOMAIN keyMap : \A w \in DOMAIN keyMap : w <= v

SelectKeyVersion(binary, keyMap) == binary[1]

\* VIDVerifier.validateKeys: does it throw?
validateKeysThrows(keyMap) ==
    \/ DOMAIN keyMap = {}
    \/ \E version \in DOMAIN keyMap :
          \/ version < 0
          \/ version > MAX_UINT8
          \/ keyMap[version].len = 0
          \/ keyMap[version].len < MIN_SECRET_BYTES

Thrown == [threw |-> TRUE]

\* verifyDetailed, step 2: the binary does not have the length of a VID
WrongLength_shortOnly(binary) == Len(binary) < VID_BYTE_LENGTH

WrongLength(binary) == Len(binary) # VID_BYTE_LENGTH

\* VIDVerifier.verifyDetailed; keyMap is a function keyVersion -> secret
verifyDetailed(input, keyMap) ==
    IF validateKeysThrows(keyMap) THEN Thrown
    ELSE LET normalized == normalizeToBinary(input) IN
    IF ~normalized.ok /\ "reason" \notin DOMAIN normalized THEN Thrown
    ELSE IF ~normalized.ok THEN Invalid(normalized.reason)
    ELSE LET binary == normalized.binary IN
    IF WrongLength(binary) THEN Invalid("INVALID_BINARY_LENGTH")
    ELSE LET keyVersion == SelectKeyVersion(binary, keyMap) IN
    IF keyVersion \notin DOMAIN keyMap \/ keyMap[keyVersion].len = 0
        THEN Invalid("UNKNOWN_KEY_VERSION")
    ELSE LET payload == subarray(binary, 0, PAYLOAD_END)
             embeddedSignature ==
                 subarray(binary, PAYLOAD_END, PAYLOAD_END + SIGNATURE_BYTES)
         IN
    IF ~verify(payload, embeddedSignature, keyMap[keyVersion])
        THEN Invalid("SIGNATURE_MISMATCH")
    ELSE Valid

\* VIDVerifier.verify: the boolean form, FALSE standing for "not true"
\* also where the call throws
verifierVerify(input, keyMap) ==
    IF validateKeysThrows(keyMap) THEN FALSE
    ELSE verifyDetailed(input, keyMap) = Valid

\* VIDVerifier.verify or verifyDetailed throws instead of returning
verifierRaises(input, keyMap) ==
    validateKeysThrows(keyMap) \/ verifyDetailed(input, keyMap) = Thrown

(***************************************************************************)
(* VIDGenerator                                                            *)
(***************************************************************************)
\* nothing has been presented for verification yet
Unchecked == [kind |-> "none"]

\* no caller holds an array or an identifier value yet
EmptyHeap == [ref \in {} |-> <<>>]

Facades == DOMAIN lastTimestamp

NoId == <<>>

\* VID.generate: the config the facade hands to its generator
ConfigOf(f) ==
    [secret |-> keys[f][currentKeyVersion[f]],
     keyVersion |-> currentKeyVersion[f],
     nodeId |-> nodeId[f]]

validateConfig_lengthUnchecked(config) ==
    /\ config.keyVersion \in 0..MAX_UINT8
    /\ "len" \in DOMAIN config.secret

\* VIDGenerator.validateConfig: TRUE when it does not throw
validateConfig(config) ==
    /\ config.keyVersion \in 0..MAX_UINT8
    /\ "len" \in DOMAIN config.secret
    /\ config.secret.len > 0
    /\ config.secret.len >= 32

\* VIDGenerator.resolveNodeId, numeric path: TRUE when it does not throw
resolveNodeIdOk(node) == node \in 0..MAX_UINT16

\* nextTimestampAndSequence, lines 317-322: the reading, clamped
ClampedNow_unclamped(f) == clock

ClampedNow(f) ==
    IF MsLess(clock, lastTimestamp[f]) THEN lastTimestamp[f] ELSE clock

\* nextTimestampAndSequence, lines 324-334, where the sequence is not exhausted
NextSequence_stuck(f) ==
    IF ClampedNow(f) = lastTimestamp[f] THEN sequence[f] ELSE 0

NextSequence(f) ==
    IF ClampedNow(f) = lastTimestamp[f] THEN sequence[f] + 1 ELSE 0

\* nextTimestampAndSequence, line 327: this call exhausts the sequence
Exhausted_early(f) ==
    ClampedNow(f) = lastTimestamp[f] /\ sequence[f] + 1 >= MAX_SEQUENCE

Exhausted(f) ==
    ClampedNow(f) = lastTimestamp[f] /\ sequence[f] + 1 > MAX_SEQUENCE

\* waitForNextMillisecond, line 353: Date.now() > deadline
DeadlinePassed_never(f) == FALSE

DeadlinePassed(f) == waited[f] > MAX_CLOCK_WAIT_MS

\* waitForNextMillisecond, line 360: while (now <= sinceTimestamp)
StillWaiting_strict(f) == MsLess(clock, lastTimestamp[f])

StillWaiting(f) == MsLeq(clock, lastTimestamp[f])

\* generate, steps 4-7, once timestamp and sequence are decided
Complete(f, timestamp, seq) ==
    LET config == ConfigOf(f)
        payload == encodePayload(config.keyVersion, timestamp,
                                 config.nodeId, seq)
        signature == sign(payload, config.secret)
    IN
    IF MsLess(MAX_TIMESTAMP, timestamp)
        THEN /\ outcome' = [outcome EXCEPT ![f] = "timestamp_overflow"]
             /\ UNCHANGED <<lastIssued, prevIssued>>
        ELSE /\ outcome' = [outcome EXCEPT ![f] = "id"]
             /\ lastIssued' = [lastIssued EXCEPT ![f] = concat(payload, signature)]
             /\ prevIssued' = [prevIssued EXCEPT ![f] = lastIssued[f]]

\* generate() that returns or throws without waiting
Generate(f) ==
    /\ pc[f] = "idle"
    /\ validateConfig(ConfigOf(f))
    /\ resolveNodeIdOk(nodeId[f])
    /\ ~Exhausted(f)
    /\ sequence' = [sequence EXCEPT ![f] = NextSequence(f)]
    /\ lastTimestamp' = [lastTimestamp EXCEPT ![f] = ClampedNow(f)]
    /\ clamped' = [clamped EXCEPT ![f] = MsLess(clock, lastTimestamp[f])]
    /\ Complete(f, ClampedNow(f), sequence'[f])
    /\ UNCHANGED <<pc, waited, clock, checked, heap>>
    /\ UNCHANGED facadeVars

\* generate() that finds the sequence exhausted: it enters
\* waitForNextMillisecond(lastTimestamp), deadline = Date.now() + 5000
GenerateWait(f) ==
    /\ pc[f] = "idle"
    /\ validateConfig(ConfigOf(f))
    /\ resolveNodeIdOk(nodeId[f])
    /\ Exhausted(f)
    /\ sequence[f] <= MAX_SEQUENCE + MaxFaults
    /\ sequence' = [sequence EXCEPT ![f] = @ + 1]
    /\ pc' = [pc EXCEPT ![f] = "waiting"]
    /\ waited' = [waited EXCEPT ![f] = 0]
    /\ UNCHANGED <<lastTimestamp, clock, lastIssued, prevIssued, outcome,
                   clamped, checked, heap>>
    /\ UNCHANGED facadeVars

\* one iteration of the do-while of waitForNextMillisecond, and, when the
\* loop is left, the rest of nextTimestampAndSequence and of generate
WaitPoll(f) ==
    /\ pc[f] = "waiting"
    /\ IF DeadlinePassed(f)
         THEN /\ pc' = [pc EXCEPT ![f] = "idle"]
              /\ waited' = [waited EXCEPT ![f] = 0]
              /\ outcome' = [outcome EXCEPT ![f] = "clock_fault"]
              /\ clamped' = [clamped EXCEPT ![f] = FALSE]
              /\ UNCHANGED <<lastTimestamp, sequence, lastIssued, prevIssued>>
       ELSE IF StillWaiting(f)
         THEN UNCHANGED <<pc, waited, outcome, lastTimestamp, sequence,
                          lastIssued, prevIssued, clamped>>
       ELSE   /\ pc' = [pc EXCEPT ![f] = "idle"]
              /\ waited' = [waited EXCEPT ![f] = 0]
              /\ sequence' = [sequence EXCEPT ![f] = 0]
              /\ lastTimestamp' = [lastTimestamp EXCEPT ![f] = clock]
              /\ clamped' = [clamped EXCEPT ![f] = FALSE]
              /\ Complete(f, clock, 0)
    /\ UNCHANGED <<clock, checked, heap>>
    /\ UNCHANGED facadeVars

\* Date.now() moves on while some generator waits
WallTick ==
    /\ \E f \in Facades : pc[f] = "waiting" /\ waited[f] <= MAX_CLOCK_WAIT_MS
    /\ waited' = [f \in Facades |->
                    IF pc[f] = "waiting" /\ waited[f] <= MAX_CLOCK_WAIT_MS
                        THEN waited[f] + WallStep ELSE waited[f]]
    /\ UNCHANGED <<lastTimestamp, sequence, pc, clock, lastIssued, prevIssued,
                   outcome, clamped, checked, heap>>
    /\ UNCHANGED facadeVars

\* TimeUtils.now() moves forward to another reading of the set S
ClockAdvance(S) ==
    /\ \E c \in S : MsLess(clock, c) /\ clock' = c
    /\ UNCHANGED <<genVars, checked, heap>>
    /\ UNCHANGED facadeVars

\* TimeUtils.now() jumps back (NTP step, VM migration, test provider)
ClockRegress(S) ==
    /\ \E c \in S : MsLess(c, clock) /\ clock' = c
    /\ UNCHANGED <<genVars, checked, heap>>
    /\ UNCHANGED facadeVars

(***************************************************************************)
(* Spec: one facade from construction on, any clock behaviour.             *)
(***************************************************************************)
\* readings of TimeUtils.now(): positive, around a limb boundary
ClockValues == {MsPlus(Ms(0, 0, 0, MAX_UINT16), i) : i \in 0..MaxTick}

\* the two readings the clock of Spec moves between: 65535 and 65536
SpecClock == {Ms(0, 0, 0, MAX_UINT16), Ms(0, 0, 1, 0)}

\* VIDInitOptions {keys: {1: "secret-v1"}, currentKeyVersion: 1, nodeId: 258}
Init ==
    /\ keys = [f \in {1} |-> (1 :> deriveKey("secret-v1"))]
    /\ currentKeyVersion = [f \in {1} |-> 1]
    /\ nodeId = [f \in {1} |-> 258]
    /\ lastTimestamp = [f \in {1} |-> MsZero]
    /\ sequence = [f \in {1} |-> 0]
    /\ pc = [f \in {1} |-> "idle"]
    /\ waited = [f \in {1} |-> 0]
    /\ clock \in SpecClock
    /\ lastIssued = [f \in {1} |-> NoId]
    /\ prevIssued = [f \in {1} |-> NoId]
    /\ issued = [f \in {1} |-> <<>>]
    /\ outcome = [f \in {1} |-> "none"]
    /\ clamped = [f \in {1} |-> FALSE]
    /\ frozen = TRUE
    /\ calls = 0
    /\ waits = 0
    /\ budget = 0
    /\ checked = Unchecked
    /\ heap = EmptyHeap

\* the clock has moved while no call was waiting for it: stop counting
Thaw ==
    /\ frozen' = (frozen /\ \E f \in Facades : pc[f] = "waiting")
    /\ calls' = IF frozen' THEN calls ELSE 0
    /\ waits' = IF frozen' THEN waits ELSE 0

\* generate() returning or throwing at once, generate() entering the wait,
\* one turn of the wait loop, the wall clock passing, the clock moving
Next ==
    \/ /\ \E f \in Facades : Generate(f)
       /\ calls' = IF frozen THEN calls + 1 ELSE calls
       /\ UNCHANGED <<frozen, waits, budget, issued>>
    \/ /\ \E f \in Facades : GenerateWait(f)
       /\ calls' = IF frozen THEN calls + 1 ELSE calls
       /\ waits' = IF frozen THEN waits + 1 ELSE waits
       /\ UNCHANGED <<frozen, budget, issued>>
    \/ /\ \E f \in Facades : WaitPoll(f)
       /\ UNCHANGED <<countVars, budget, issued>>
    \/ /\ WallTick
       /\ UNCHANGED <<countVars, budget, issued>>
    \/ /\ ClockAdvance(SpecClock)
       /\ Thaw
       /\ UNCHANGED <<budget, issued>>
    \/ /\ ClockRegress(SpecClock)
       /\ Thaw
       /\ UNCHANGED <<budget, issued>>

Spec == Init /\ [][Next]_vars

(***************************************************************************)
(* Properties of the generator, under Spec.                                *)
(***************************************************************************)
\* the (timestamp, sequence) pair an identifier carries
PairLess(a, b) ==
    \/ MsLess(TimestampOf(a), TimestampOf(b))
    \/ TimestampOf(a) = TimestampOf(b) /\ SequenceOf(a) < SequenceOf(b)

\* this step returns an identifier from facade f
Returns(f) == lastIssued'[f] # lastIssued[f] \/ prevIssued'[f] # prevIssued[f]

\* C1: of two identifiers one generator returns one after the other, the
\* later carries the strictly greater (timestamp, sequence) pair, whatever
\* the clock did in between; hence no pair is ever issued twice.
C1_PairsStrictlyIncrease ==
    \A f \in Facades :
        prevIssued[f] # NoId => PairLess(prevIssued[f], lastIssued[f])

C1_Witness ==
    \E f \in Facades :
        /\ prevIssued[f] # NoId
        /\ TimestampOf(prevIssued[f]) = TimestampOf(lastIssued[f])
        /\ SequenceOf(lastIssued[f]) = SequenceOf(prevIssued[f]) + 1
        /\ SequenceOf(prevIssued[f]) > 0

\* C2: the 11-byte payload of an identifier sorts, byte by byte, strictly
\* after the payload of the identifier the same facade returned before it.
C2_PayloadOrderIsCallOrder ==
    \A f \in Facades :
        prevIssued[f] # NoId =>
            BytesBefore(PayloadOf(prevIssued[f]), PayloadOf(lastIssued[f]))

C2_Witness ==
    \E f \in Facades :
        /\ prevIssued[f] # NoId
        /\ SequenceOf(prevIssued[f]) = 255
        /\ SequenceOf(lastIssued[f]) = 256

\* C3: the sequence never wraps.  An identifier just returned carries the
\* generator's own counter, which is at most 65535; a call that finds the
\* counter exhausted within the millisecond returns nothing at once; and
\* the call that waited returns only a reading strictly above the old
\* lastTimestamp, with sequence 0.
C3_NeverWrapsSilently ==
    [][\A f \in Facades :
          /\ Returns(f) =>
                /\ SequenceOf(lastIssued'[f]) = sequence'[f]
                /\ sequence'[f] <= MAX_SEQUENCE
          /\ (pc[f] = "idle" /\ sequence[f] >= MAX_SEQUENCE
                /\ MsLeq(clock, lastTimestamp[f])) => ~Returns(f)
          /\ (pc[f] = "waiting" /\ Returns(f)) =>
                /\ MsLess(lastTimestamp[f], TimestampOf(lastIssued'[f]))
                /\ TimestampOf(lastIssued'[f]) = clock
                /\ SequenceOf(lastIssued'[f]) = 0
      ]_vars

C3_Witness ==
    \E f \in Facades :
        /\ prevIssued[f] # NoId
        /\ SequenceOf(prevIssued[f]) = MAX_SEQUENCE
        /\ SequenceOf(lastIssued[f]) = 0
        /\ MsLess(TimestampOf(prevIssued[f]), TimestampOf(lastIssued[f]))

\* C4: on a fresh generator whose clock stays at one millisecond, calls
\* 1..65536 return sequences 0..65535 of that millisecond without waiting,
\* and call 65537 is the first, and the only one, to enter the wait; the
\* identifier it returns once the clock has moved repeats no pair.
C4_OneWaitAt65537 ==
    (frozen /\ calls <= MAX_SEQUENCE + 2) =>
        /\ waits = (IF calls = MAX_SEQUENCE + 2 THEN 1 ELSE 0)
        /\ \A f \in Facades :
              /\ (calls \in 1..(MAX_SEQUENCE + 1)) =>
                    /\ pc[f] = "idle"
                    /\ outcome[f] = "id"
                    /\ SequenceOf(lastIssued[f]) = calls - 1
                    /\ TimestampOf(lastIssued[f]) = clock
              /\ (calls = MAX_SEQUENCE + 2 /\ pc[f] = "idle"
                    /\ outcome[f] = "id") =>
                    /\ SequenceOf(prevIssued[f]) = MAX_SEQUENCE
                    /\ PairLess(prevIssued[f], lastIssued[f])

C4_Witness ==
    /\ frozen
    /\ calls = MAX_SEQUENCE + 2
    /\ waits = 1
    /\ \E f \in Facades : pc[f] = "idle" /\ outcome[f] = "id"

\* C5: lastTimestamp never decreases; a call that reads the clock below
\* lastTimestamp returns lastTimestamp; and the timestamps of successive
\* identifiers never decrease, however the clock jumps.
C5_RegressionIsClamped ==
    [][\A f \in Facades :
          /\ MsLeq(lastTimestamp[f], lastTimestamp'[f])
          /\ (pc[f] = "idle" /\ MsLess(clock, lastTimestamp[f]) /\ Returns(f)) =>
                TimestampOf(lastIssued'[f]) = lastTimestamp[f]
          /\ prevIssued'[f] # NoId =>
                MsLeq(TimestampOf(prevIssued'[f]), TimestampOf(lastIssued'[f]))
      ]_vars

C5_Witness ==
    \E f \in Facades :
        /\ clamped[f]
        /\ pc[f] = "idle"
        /\ outcome[f] = "id"
        /\ MsLess(clock, TimestampOf(lastIssued[f]))
        /\ lastTimestamp[f] = TimestampOf(lastIssued[f])

(***************************************************************************)
(* Bounded specifications: several facades, a budget of generate() calls.  *)
(* A generator starts fresh, or where 65536 calls within the millisecond t *)
(* leave it: lastTimestamp = t, sequence = 65535 (Spec reaches that state, *)
(* see C3_Witness), having just returned the identifier (t, 65535).        *)
(***************************************************************************)
\* the identifier generate() builds for facade record c at (timestamp, seq)
Identifier(c, timestamp, seq) ==
    concat(encodePayload(c.keyVersion, timestamp, c.nodeId, seq),
           sign(encodePayload(c.keyVersion, timestamp, c.nodeId, seq),
                c.secret))

\* generator states: <<lastTimestamp, sequence>>
FreshState == <<MsZero, 0>>

WarmStates == {<<t, MAX_SEQUENCE>> : t \in ClockValues}

\* the state of a fleet whose facades are configured by keys, cur and node,
\* with generator f in state start[f]
Fleet(F, keyMaps, cur, node, start) ==
    /\ keys = keyMaps
    /\ currentKeyVersion = cur
    /\ nodeId = node
    /\ lastTimestamp = [f \in F |-> start[f][1]]
    /\ sequence = [f \in F |-> start[f][2]]
    /\ pc = [f \in F |-> "idle"]
    /\ waited = [f \in F |-> 0]
    /\ clock \in ClockValues
    /\ lastIssued = [f \in F |->
          IF start[f] = FreshState THEN NoId
          ELSE Identifier([keyVersion |-> cur[f], nodeId |-> node[f],
                           secret |-> keyMaps[f][cur[f]]],
                          start[f][1], start[f][2])]
    /\ prevIssued = [f \in F |-> NoId]
    /\ issued = [f \in F |->
          IF lastIssued[f] = NoId THEN <<>> ELSE <<lastIssued[f]>>]
    /\ outcome = [f \in F |-> IF start[f] = FreshState THEN "none" ELSE "id"]
    /\ clamped = [f \in F |-> FALSE]
    /\ frozen = FALSE
    /\ calls = 0
    /\ waits = 0
    /\ budget = MaxCalls
    /\ checked = Unchecked
    /\ heap = EmptyHeap

\* the history of returned identifiers grows by what this step returns
Record(f) ==
    issued' = IF Returns(f)
                THEN [issued EXCEPT ![f] = Append(@, lastIssued'[f])]
                ELSE issued

BoundedMint ==
    /\ budget > 0
    /\ \E f \in Facades : Generate(f) /\ Record(f)
    /\ budget' = budget - 1
    /\ UNCHANGED countVars

BoundedMintWait ==
    /\ budget > 0
    /\ \E f \in Facades : GenerateWait(f)
    /\ budget' = budget - 1
    /\ UNCHANGED <<countVars, issued>>

BoundedPoll ==
    /\ \E f \in Facades : WaitPoll(f) /\ Record(f)
    /\ UNCHANGED <<countVars, budget>>

BoundedTick ==
    /\ WallTick
    /\ UNCHANGED <<countVars, budget, issued>>

BoundedAdvance ==
    /\ ClockAdvance(ClockValues)
    /\ UNCHANGED <<countVars, budget, issued>>

BoundedRegress ==
    /\ ClockRegress(ClockValues)
    /\ UNCHANGED <<countVars, budget, issued>>

BoundedNext ==
    \/ BoundedMint
    \/ BoundedMintWait
    \/ BoundedPoll
    \/ BoundedTick
    \/ BoundedAdvance
    \/ BoundedRegress

(***************************************************************************)
(* FleetSpec: generators side by side, sharing one key set.                *)
(***************************************************************************)
FleetSize == 2

NodeIds == {258, 514}

FleetInit ==
    \E node \in [1..FleetSize -> NodeIds] :
    \E start \in [1..FleetSize -> {FreshState} \cup WarmStates] :
        /\ \A f \in 2..FleetSize : start[f] = FreshState
        /\ Fleet(1..FleetSize,
                 [f \in 1..FleetSize |-> (1 :> deriveKey("secret-v1"))],
                 [f \in 1..FleetSize |-> 1], node, start)

FleetSpec == FleetInit /\ [][BoundedNext]_vars

\* C6: identifiers returned by generators with different node ids never
\* have the same 11-byte payload, however their calls interleave, and
\* neither have two identifiers returned by one generator.
C6_PayloadsUniqueAcrossFleet ==
    \A f, g \in Facades :
        \A i \in DOMAIN issued[f], j \in DOMAIN issued[g] :
            ((f # g /\ nodeId[f] # nodeId[g]) \/ (f = g /\ i # j)) =>
                PayloadOf(issued[f][i]) # PayloadOf(issued[g][j])

C6_Witness ==
    \E f, g \in Facades :
        /\ nodeId[f] # nodeId[g]
        /\ lastIssued[f] # NoId
        /\ lastIssued[g] # NoId
        /\ TimestampOf(lastIssued[f]) = TimestampOf(lastIssued[g])
        /\ SequenceOf(lastIssued[f]) = SequenceOf(lastIssued[g])
        /\ KeyVersionOf(lastIssued[f]) = KeyVersionOf(lastIssued[g])

(***************************************************************************)
(* LiveSpec: one generator; the loop of waitForNextMillisecond keeps       *)
(* iterating and Date.now() keeps advancing while it does.                 *)
(***************************************************************************)
LiveInit ==
    \E start \in {FreshState} \cup WarmStates, node \in NodeIds :
        Fleet({1}, [f \in {1} |-> (1 :> deriveKey("secret-v1"))],
              [f \in {1} |-> 1], [f \in {1} |-> node], [f \in {1} |-> start])

LiveSpec ==
    /\ LiveInit
    /\ [][BoundedNext]_vars
    /\ WF_vars(BoundedPoll)
    /\ WF_vars(BoundedTick)

\* C7: a call that has entered the overflow wait always leaves it, and it
\* leaves it in one of two ways only: with a clock reading strictly above
\* lastTimestamp, or with the clock fault once Date.now() has passed the
\* deadline set 5000 ms after the wait began.
C7_WaitAlwaysEnds ==
    /\ \A f \in {1} : (pc[f] = "waiting") ~> (pc[f] = "idle")
    /\ [][\A f \in {1} :
            (pc[f] = "waiting" /\ pc'[f] = "idle") =>
                \/ /\ outcome'[f] = "clock_fault"
                   /\ waited[f] > MAX_CLOCK_WAIT_MS
                \/ /\ outcome'[f] # "clock_fault"
                   /\ MsLess(lastTimestamp[f], lastTimestamp'[f])
                   /\ lastTimestamp'[f] = clock
       ]_vars

C7_Witness ==
    \E f \in Facades :
        /\ pc[f] = "idle"
        /\ outcome[f] = "clock_fault"
        /\ clock = lastTimestamp[f]

(***************************************************************************)
(* AuthSpec: three facades along a key rotation (README, "Key rotation"):  *)
(* 1 holds {1}, 2 holds {1, 2}, 3 holds {2}.  Identifiers they return,     *)
(* intact or with one byte changed, are presented to all three.            *)
(***************************************************************************)
RotationKeys ==
    (1 :> (1 :> deriveKey("secret-v1")))
    @@ (2 :> (1 :> deriveKey("secret-v1") @@ 2 :> deriveKey("secret-v2")))
    @@ (3 :> (2 :> deriveKey("secret-v2")))

AuthInit ==
    \E cur2 \in {1, 2} :
        Fleet({1, 2, 3}, RotationKeys, (1 :> 1) @@ (2 :> cur2) @@ (3 :> 2),
              (1 :> 258) @@ (2 :> 514) @@ (3 :> 258),
              [f \in {1, 2, 3} |-> FreshState])

\* what one byte of an identifier can be changed to: another byte value
\* in the payload; in the signature, another byte of the same digest or a
\* byte of a digest made with a key of the attacker's own
Replacements(b, pos) ==
    IF pos <= PAYLOAD_END
        THEN {(b[pos] + 1) % 256, (b[pos] + 255) % 256}
        ELSE {<<b[pos][1], b[pos][2], (b[pos][3] % DIGEST_BYTES) + 1>>,
              <<"attacker-key", b[pos][2], b[pos][3]>>}

\* the verdict of every facade on one input
Verdicts(input) == [v \in Facades |-> verifyDetailed(input, keys[v])]

\* VID.verifyDetailed(id) on each facade, for the identifier f returned last
Authenticate(f) ==
    /\ checked = Unchecked
    /\ lastIssued[f] # NoId
    /\ checked' = [kind |-> "id", of |-> f, pos |-> 0,
                   input |-> lastIssued[f],
                   result |-> Verdicts(Input("VIDValue", lastIssued[f])),
                   accepted |-> [v \in Facades |->
                       verifierVerify(Input("VIDValue", lastIssued[f]),
                                      keys[v])]]
    /\ UNCHANGED <<genVars, clock, issued, countVars, budget, heap>>
    /\ UNCHANGED facadeVars

\* the same with byte pos (1-based) of the binary replaced
AuthenticateTampered(f, pos) ==
    /\ checked = Unchecked
    /\ lastIssued[f] # NoId
    /\ \E x \in Replacements(lastIssued[f], pos) :
          checked' = [kind |-> "id", of |-> f, pos |-> pos,
                      input |-> [lastIssued[f] EXCEPT ![pos] = x],
                      result |-> Verdicts(Input("Uint8Array",
                                    [lastIssued[f] EXCEPT ![pos] = x]))]
    /\ UNCHANGED <<genVars, clock, issued, countVars, budget, heap>>
    /\ UNCHANGED facadeVars

\* HMACSigner.sign(p, k), then HMACSigner.verify(p, that signature, k)
SignThenVerify(p, k) ==
    /\ checked = Unchecked
    /\ checked' = [kind |-> "raw", payload |-> p, secret |-> k,
                   threw |-> signThrows(p, k),
                   accepted |-> IF signThrows(p, k) THEN FALSE
                                ELSE verify(p, sign(p, k), k)]
    /\ UNCHANGED <<genVars, clock, issued, countVars, budget, heap>>
    /\ UNCHANGED facadeVars

AuthNext ==
    \/ BoundedMint
    \/ BoundedAdvance
    \/ \E f \in Facades : Authenticate(f)
    \/ \E f \in Facades, pos \in 1..VID_BYTE_LENGTH :
          AuthenticateTampered(f, pos)
    \/ \E p \in {<<>>, <<7>>, <<0, 255>>,
                  encodePayload(1, Ms(0, 0, 1, 0), 258, 0)},
          k \in {Secret("k", 0), Secret("k", MIN_SECRET_BYTES - 1),
                 Secret("k", MIN_SECRET_BYTES),
                 Secret("l", 2 * MIN_SECRET_BYTES)} : SignThenVerify(p, k)

AuthSpec == AuthInit /\ [][AuthNext]_vars

\* C8: a signature made by sign(p, k) over a non-empty payload with a
\* secret of at least 32 bytes is accepted by verify(p, ., k); and every
\* facade accepts the identifiers it returned itself.
C8_SignThenVerifyAccepts ==
    /\ (checked.kind = "raw" /\ Len(checked.payload) >= 1
            /\ checked.secret.len >= 32) =>
          ~checked.threw /\ checked.accepted
    /\ (checked.kind = "id" /\ checked.pos = 0) =>
          /\ checked.result[checked.of] = [valid |-> TRUE]
          /\ checked.accepted[checked.of]

C8_Witness ==
    /\ checked.kind = "id"
    /\ checked.pos = 0
    /\ checked.result[checked.of] = Valid
    /\ SequenceOf(checked.input) = 0
    /\ prevIssued[checked.of] # NoId

\* C9: a returned identifier with one byte changed, in the payload or in
\* the signature, is rejected with SIGNATURE_MISMATCH by every facade that
\* holds a key for the key version the changed binary names.
C9_TamperingIsDetected ==
    (checked.kind = "id" /\ checked.pos > 0) =>
        \A v \in Facades :
            KeyVersionOf(checked.input) \in DOMAIN keys[v] =>
                checked.result[v] = Invalid("SIGNATURE_MISMATCH")

C9_Witness ==
    /\ checked.kind = "id"
    /\ checked.of = 1
    /\ checked.pos = 1
    /\ KeyVersionOf(checked.input) = 2
    /\ checked.result[1] = Invalid("UNKNOWN_KEY_VERSION")
    /\ checked.result[2] = Invalid("SIGNATURE_MISMATCH")
    /\ checked.result[3] = Invalid("SIGNATURE_MISMATCH")

\* C10: an identifier minted under key version 1 is accepted by a facade
\* holding versions 1 and 2, whatever that facade's current version, and
\* is rejected with UNKNOWN_KEY_VERSION by a facade holding only version 2.
C10_KeyRotation ==
    (checked.kind = "id" /\ checked.pos = 0
        /\ KeyVersionOf(checked.input) = 1) =>
        \A v \in Facades :
            /\ DOMAIN keys[v] = {1, 2} => checked.result[v] = Valid
            /\ DOMAIN keys[v] = {2} =>
                  checked.result[v] = Invalid("UNKNOWN_KEY_VERSION")

C10_Witness ==
    /\ checked.kind = "id"
    /\ checked.pos = 0
    /\ checked.of = 1
    /\ currentKeyVersion[2] = 2
    /\ checked.result[2] = Valid
    /\ checked.result[3] = Invalid("UNKNOWN_KEY_VERSION")

(***************************************************************************)
(* InputSpec: one facade that has returned an identifier, handed inputs of *)
(* every kind to authenticate.                                             *)
(***************************************************************************)
InputInit ==
    \E f \in DOMAIN RotationKeys, start \in WarmStates :
        Fleet({1}, [g \in {1} |-> RotationKeys[f]],
              [g \in {1} |-> CHOOSE v \in DOMAIN RotationKeys[f] : TRUE],
              [g \in {1} |-> 258], [g \in {1} |-> start])

\* byte arrays that are no identifier of anybody: all one byte value
PlainBinaries ==
    {[i \in 1..n |-> b] : n \in {0, 1, VID_BYTE_LENGTH - 1, VID_BYTE_LENGTH,
                                 VID_BYTE_LENGTH + 1},
                          b \in {0, 1, 2, MAX_UINT8}}

\* 29-character base32 texts: encodings of 18-byte arrays
SampleTexts ==
    {encode(b).value : b \in {b \in PlainBinaries : Len(b) = VID_BYTE_LENGTH}}

RECURSIVE toLowerCase(_)
toLowerCase(s) ==
    IF s = <<>> THEN <<>>
    ELSE (IF Head(s) \in Range(UpperCaseLetters)
              THEN <<LowerCaseLetters[IndexOf(UpperCaseLetters, Head(s))]>>
              ELSE <<Head(s)>>) \o toLowerCase(Tail(s))

\* the ways a text is written differently: other case, white space around
Rewritings(t) ==
    {t, toLowerCase(t), <<" ", "TAB">> \o t \o <<"NBSP">>,
     <<"TAB">> \o toLowerCase(t)}

\* texts presented: well formed, respelt, with one odd character, cut short,
\* too long, 28 characters ending in a sharp s, and "not-base32!!"
TextInputs ==
    UNION {Rewritings(t) : t \in SampleTexts}
    \cup {[t EXCEPT ![p] = c] :
              t \in SampleTexts, p \in {1, 15, VID_STRING_LENGTH},
              c \in {"b", "0", "1", "8", "!", "-", " ", "NBSP", "sharp-s",
                     "dotless-i", "e-acute"}}
    \cup {SubSeq(t, 1, n) : t \in SampleTexts,
                            n \in {0, 12, VID_STRING_LENGTH - 1}}
    \cup {t \o <<"A">> : t \in SampleTexts}
    \cup {SubSeq(t, 1, VID_STRING_LENGTH - 2) \o <<c>> :
              t \in SampleTexts, c \in {"sharp-s", "!"}}
    \cup {<<"n", "o", "t", "-", "b", "a", "s", "e", "3", "2", "!", "!">>}

\* VID.verify(input) and VID.verifyDetailed(input) on facade f
Present(f, input) ==
    /\ checked = Unchecked
    /\ checked' = [kind |-> "input", input |-> input,
                   raised |-> verifierRaises(input, keys[f]),
                   boolean |-> verifierVerify(input, keys[f]),
                   detailed |-> verifyDetailed(input, keys[f])]
    /\ UNCHANGED <<genVars, clock, issued, countVars, budget, heap>>
    /\ UNCHANGED facadeVars

\* what callers present: nothing, values of other types, strings, byte
\* arrays (plain ones, and the last identifier cut or extended by a byte),
\* and the last identifier as a VIDValue
InputNext ==
    \/ \E f \in Facades, type \in {"null", "undefined"} :
          Present(f, Input(type, <<>>))
    \/ \E f \in Facades, type \in {"number", "boolean", "object", "function"} :
          Present(f, Input(type, <<>>))
    \/ \E f \in Facades, t \in TextInputs : Present(f, Input("string", t))
    \/ \E f \in Facades, type \in {"Uint8Array", "Buffer", "ArrayBuffer"} :
          \/ \E b \in PlainBinaries : Present(f, Input(type, b))
          \/ /\ lastIssued[f] # NoId
             /\ \E n \in {VID_BYTE_LENGTH - 1, VID_BYTE_LENGTH,
                          VID_BYTE_LENGTH + 1} :
                   Present(f, Input(type,
                       SubSeq(lastIssued[f] \o <<0>>, 1, n)))
    \/ \E f \in Facades :
          /\ lastIssued[f] # NoId
          /\ Present(f, Input("VIDValue", lastIssued[f]))

InputSpec == InputInit /\ [][InputNext]_vars

Normalized(input) == toUpperCase(trim(input.value))

HasOddCharacter(t) == \E i \in 1..Len(t) : t[i] \notin Range(ALPHABET)

\* C12 as stated: a string input with a character outside A-Z, 2-7 after
\* trimming and upper-casing is reported as INVALID_STRING_CHARS; so is
\* "not-base32!!".
C12_OddCharacterGivesInvalidChars ==
    (checked.kind = "input" /\ checked.input.type = "string"
        /\ HasOddCharacter(Normalized(checked.input))) =>
        checked.detailed = [valid |-> FALSE, reason |-> "INVALID_STRING_CHARS"]

\* C12, amended: the length is checked first.  A string input whose
\* trimmed, upper-cased text has 29 characters, one of them outside
\* A-Z, 2-7, is reported as INVALID_STRING_CHARS; one whose text has another
\* length, "not-base32!!" among them, is reported as INVALID_STRING_LENGTH.
C12_OddCharacterAtFullLength ==
    (checked.kind = "input" /\ checked.input.type = "string") =>
        /\ (Len(Normalized(checked.input)) = 29
                /\ HasOddCharacter(Normalized(checked.input))) =>
              checked.detailed =
                  [valid |-> FALSE, reason |-> "INVALID_STRING_CHARS"]
        /\ Len(Normalized(checked.input)) # 29 =>
              checked.detailed =
                  [valid |-> FALSE, reason |-> "INVALID_STRING_LENGTH"]

C12_Witness ==
    /\ checked.kind = "input"
    /\ checked.input.type = "string"
    /\ Len(checked.input.value) = 29
    /\ checked.input.value[15] = "!"
    /\ checked.detailed = [valid |-> FALSE, reason |-> "INVALID_STRING_CHARS"]

\* C13: a Uint8Array, Buffer or ArrayBuffer input that does not hold exactly
\* 18 bytes is reported as INVALID_BINARY_LENGTH, whatever its first byte
\* is and whatever keys the facade holds.
C13_WrongLengthIsReported ==
    (checked.kind = "input"
        /\ checked.input.type \in {"Uint8Array", "Buffer", "ArrayBuffer"}
        /\ Len(checked.input.value) # 18) =>
        checked.detailed = [valid |-> FALSE, reason |-> "INVALID_BINARY_LENGTH"]

C13_Witness ==
    /\ checked.kind = "input"
    /\ checked.input.type = "Uint8Array"
    /\ checked.input.value = [i \in 1..17 |-> 0]
    /\ checked.detailed = [valid |-> FALSE, reason |-> "INVALID_BINARY_LENGTH"]

(***************************************************************************)
(* CodecSpec: Base32Encoder applied to byte arrays and to texts.           *)
(***************************************************************************)
CodecInit ==
    Fleet({1}, [f \in {1} |-> (1 :> deriveKey("secret-v1"))],
          [f \in {1} |-> 1], [f \in {1} |-> 258], [f \in {1} |-> FreshState])

\* 18-byte arrays: one byte, of values that exercise every bit of a byte
\* and of a 5-bit group, on a plain ground; and a ramp
CodecBinaries ==
    {[i \in 1..VID_BINARY_BYTES |-> IF i = p THEN x ELSE ground] :
        p \in 1..VID_BINARY_BYTES,
        x \in {0, 1, 7, 8, 16, 31, 32, 85, 127, 128, 170, 248, MAX_UINT8},
        ground \in {0, 85, MAX_UINT8}}
    \cup {[i \in 1..VID_BINARY_BYTES |-> (i * 37) % 256]}

\* texts: those authenticate is handed, 29-character base32 texts with
\* every possible last character, and respelt texts with one odd character
CodecTexts ==
    TextInputs
    \cup {[t EXCEPT ![VID_STRING_CHARS] = c] :
              t \in SampleTexts, c \in Range(ALPHABET)}
    \cup {encode(b).value : b \in {b \in CodecBinaries : b[1] = 85}}
    \cup UNION {Rewritings([t EXCEPT ![15] = c]) :
                    t \in SampleTexts, c \in {"1", "8", "e-acute"}}

\* Base32Encoder.decode(Base32Encoder.encode(b))
EncodeThenDecode(b) ==
    /\ checked = Unchecked
    /\ checked' = [kind |-> "binary", bytes |-> b, encoded |-> encode(b),
                   decoded |-> IF encode(b).ok THEN decode(encode(b).value)
                               ELSE encode(b)]
    /\ UNCHANGED <<genVars, clock, issued, countVars, budget, heap>>
    /\ UNCHANGED facadeVars

\* Base32Encoder.encode(Base32Encoder.decode(t)), and decode of t respelt
DecodeThenEncode(t) ==
    /\ checked = Unchecked
    /\ checked' = [kind |-> "text", text |-> t, decoded |-> decode(t),
                   encoded |-> IF decode(t).ok THEN encode(decode(t).value)
                               ELSE decode(t),
                   respelt |-> {decode(u) : u \in Rewritings(t)}]
    /\ UNCHANGED <<genVars, clock, issued, countVars, budget, heap>>
    /\ UNCHANGED facadeVars

\* VIDGenerator.encodePayload(keyVersion, timestamp, node, seq), and the
\* reads VIDParser.parse makes of the payload
EncodeThenRead(keyVersion, timestamp, node, seq) ==
    /\ checked = Unchecked
    /\ checked' =
          [kind |-> "fields", keyVersion |-> keyVersion,
           timestamp |-> timestamp, nodeId |-> node, sequence |-> seq,
           payload |-> encodePayload(keyVersion, timestamp, node, seq),
           read |-> [keyVersion |->
                        KeyVersionOf(encodePayload(keyVersion, timestamp,
                                                   node, seq)),
                     timestamp |->
                        TimestampOf(encodePayload(keyVersion, timestamp,
                                                  node, seq)),
                     nodeId |->
                        NodeIdOf(encodePayload(keyVersion, timestamp,
                                               node, seq)),
                     sequence |->
                        SequenceOf(encodePayload(keyVersion, timestamp,
                                                 node, seq))]]
    /\ UNCHANGED <<genVars, clock, issued, countVars, budget, heap>>
    /\ UNCHANGED facadeVars

\* field values at the ends and in the middle of their ranges, with bytes
\* that differ from one another
CodecNext ==
    \/ \E b \in CodecBinaries : EncodeThenDecode(b)
    \/ \E t \in CodecTexts : DecodeThenEncode(t)
    \/ \E keyVersion \in {0, 1, 127, 128, MAX_UINT8},
          node \in {0, 1, 255, 256, 258, MAX_UINT16},
          seq \in {0, 1, 255, 256, 4660, MAX_UINT16},
          timestamp \in {MsZero, Ms(0, 0, 0, MAX_UINT16), Ms(0, 0, 1, 0),
                         Ms(0, 1, 0, 0), Ms(0, 367, 24166, 59392),
                         Ms(0, 32768, 258, 772), MAX_TIMESTAMP} :
          EncodeThenRead(keyVersion, timestamp, node, seq)

CodecSpec == CodecInit /\ [][CodecNext]_vars

\* C14: an 18-byte array encodes to 29 characters, all of them in
\* A-Z, 2-7, and decoding that text gives the array back byte for byte.
C14_BinaryRoundTrip ==
    checked.kind = "binary" =>
        /\ checked.encoded.ok
        /\ Len(checked.encoded.value) = 29
        /\ \A i \in 1..Len(checked.encoded.value) :
              checked.encoded.value[i] \in
                  {"A", "B", "C", "D", "E", "F", "G", "H", "I", "J", "K",
                   "L", "M", "N", "O", "P", "Q", "R", "S", "T", "U", "V",
                   "W", "X", "Y", "Z", "2", "3", "4", "5", "6", "7"}
        /\ checked.decoded.ok
        /\ checked.decoded.value = checked.bytes

C14_Witness ==
    /\ checked.kind = "binary"
    /\ checked.bytes[VID_BINARY_BYTES] = 1
    /\ checked.bytes[1] = MAX_UINT8
    /\ checked.encoded.value[VID_STRING_CHARS] = "C"
    /\ checked.decoded.value = checked.bytes

\* C15: for a text that, trimmed, has 29 characters all in the base32
\* alphabet in either case, encoding what it decodes to gives the text
\* back, trimmed and upper-cased.
C15_TextRoundTrip ==
    (checked.kind = "text" /\ Len(trim(checked.text)) = 29
        /\ \A i \in 1..Len(trim(checked.text)) :
              trim(checked.text)[i] \in
                  Range(ALPHABET) \cup Range(LowerCaseLetters)) =>
        /\ checked.decoded.ok
        /\ checked.encoded.ok
        /\ checked.encoded.value = toUpperCase(trim(checked.text))

\* what decode did with a text whose form after preparation is prepared
DecodeAnswersFor(prepared) ==
    /\ ~checked.decoded.ok <=>
          (Len(prepared) # 29 \/ HasOddCharacter(toUpperCase(trim(checked.text))))
    /\ (~checked.decoded.ok /\ checked.decoded.error = "Error") =>
          LET s == toUpperCase(trim(checked.text)) IN
          checked.decoded.position + 1 =
              CHOOSE i \in 1..Len(s) :
                  /\ s[i] \notin Range(ALPHABET)
                  /\ \A j \in 1..(i - 1) : s[j] \in Range(ALPHABET)
    /\ checked.decoded.ok =>
          /\ Len(checked.decoded.value) = 18
          /\ checked.respelt = {checked.decoded}

Uint8ArrayObject(bytes, held) ==
    [kind |-> "Uint8Array", bytes |-> bytes, held |-> held]

\* the fields of a VIDValue: binary is a reference, _cachedString a text
VIDValueObject(binary, cachedString) ==
    [kind |-> "VIDValue", binary |-> binary, _cachedString |-> cachedString]

\* arrays a caller has a reference to
HeldArrays ==
    {r \in 1..Len(heap) : heap[r].kind = "Uint8Array" /\ heap[r].held}

Values == {r \in 1..Len(heap) : heap[r].kind = "VIDValue"}

\* new VIDValue(binary), binary being the array at reference r of heap h:
\* the reference itself is stored, and the text form is computed
newVIDValue(h, r) ==
    IF Len(h[r].bytes) # VID_BYTE_LENGTH THEN Raised("RangeError")
    ELSE Returned(VIDValueObject(r, encode(h[r].bytes).value))

\* VIDValue.toString: the constructor has filled the cache
toString(h, v) == h[v]._cachedString

\* VIDValue.toBinary: the bytes of the fresh copy it returns
toBinary(h, v) == h[h[v].binary].bytes

\* VID_STRING_REGEX of VIDValue.ts
VID_STRING_REGEX(s) == RegexUpperBase32(s, 26)

\* VIDValue.fromString up to the constructor call: the decoded bytes
fromString(input) ==
    LET trimmed == toUpperCase(trim(input)) IN
    IF Len(trimmed) # VID_STRING_LENGTH THEN Raised("RangeError")
    ELSE IF ~VID_STRING_REGEX(trimmed) THEN Raised("Error")
    ELSE LET binary == decode(trimmed) IN
         IF ~binary.ok THEN Raised(binary.error)
         ELSE Returned(binary.value)

\* the caller makes a byte array
AllocateArray(b) ==
    /\ Len(heap) < MaxObjects
    /\ heap' = Append(heap, Uint8ArrayObject(b, TRUE))
    /\ UNCHANGED <<genVars, clock, issued, countVars, budget, checked>>
    /\ UNCHANGED facadeVars

\* new VIDValue(a), VIDValue.fromBinary(a), VIDPostgresAdapter.fromDatabase(a)
ConstructValue(a) ==
    /\ Len(heap) < MaxObjects
    /\ LET made == newVIDValue(heap, a) IN
       IF made.ok
       THEN /\ heap' = Append(heap, made.value)
            /\ UNCHANGED checked
       ELSE /\ checked = Unchecked
            /\ checked' = [kind |-> "construct", result |-> made]
            /\ UNCHANGED heap
    /\ UNCHANGED <<genVars, clock, issued, countVars, budget>>
    /\ UNCHANGED facadeVars

\* v.toBinary(): the caller receives a new array
CallToBinary(v) ==
    /\ Len(heap) < MaxObjects
    /\ heap' = Append(heap, Uint8ArrayObject(toBinary(heap, v), TRUE))
    /\ UNCHANGED <<genVars, clock, issued, countVars, budget, checked>>
    /\ UNCHANGED facadeVars

\* the caller stores x at index i - 1 of an array it holds
WriteByte(a, i, x) ==
    /\ i \in 1..Len(heap[a].bytes)
    /\ heap' = [heap EXCEPT ![a].bytes[i] = x]
    /\ UNCHANGED <<genVars, clock, issued, countVars, budget, checked>>
    /\ UNCHANGED facadeVars

\* VIDValue.fromString(t), and VIDPostgresAdapter.fromString(t) / toCursor(t),
\* whose Buffer holds the bytes of the value fromString returns
CallFromString(t) ==
    /\ checked = Unchecked
    /\ LET made == fromString(t) IN
       /\ checked' = [kind |-> "fromString", text |-> t, result |-> made,
                      adapter |-> fromString(t)]
       /\ IF made.ok /\ Len(heap) + 2 <= MaxObjects
          THEN heap' = heap \o <<Uint8ArrayObject(made.value, FALSE),
                                 newVIDValue(
                                     Append(heap,
                                         Uint8ArrayObject(made.value, FALSE)),
                                     Len(heap) + 1).value>>
          ELSE UNCHANGED heap
    /\ UNCHANGED <<genVars, clock, issued, countVars, budget>>
    /\ UNCHANGED facadeVars

\* the caller makes an array of 18 or of 17 zero bytes, constructs a value
\* from an array it holds, calls toBinary, writes 255 at index 0 of an array
\* it holds, and calls fromString with the text form of a value, with a
\* well-formed text respelt, with its first 26 characters, or with a "1" in it
ValueNext ==
    \/ \E n \in {VID_BINARY_BYTES, VID_BINARY_BYTES - 1} :
          AllocateArray([i \in 1..n |-> 0])
    \/ \E a \in HeldArrays : ConstructValue(a)
    \/ \E v \in Values : CallToBinary(v)
    \/ \E a \in HeldArrays : WriteByte(a, 1, MAX_UINT8)
    \/ \E v \in Values : CallFromString(toString(heap, v))
    \/ \E t \in Rewritings(encode([i \in 1..VID_BINARY_BYTES |->
                                      (i * 37) % 256]).value) :
          \/ CallFromString(t)
          \/ CallFromString(SubSeq(t, 1, 26))
          \/ CallFromString([t EXCEPT ![2] = "1"])

ValueSpec == CodecInit /\ [][ValueNext]_vars

\* C17: what toBinary() and toString() of an identifier value return never
\* changes, whatever the caller does to the array it was constructed from
\* or to an array toBinary() returned, and toString() is always the base32
\* encoding of what toBinary() returns.
C17_ValueImmutable ==
    /\ [](\A v \in Values :
            toString(heap, v) = encode(toBinary(heap, v)).value)
    /\ [][\A v \in Values :
            /\ toBinary(heap', v) = toBinary(heap, v)
            /\ toString(heap', v) = toString(heap, v)]_vars

\* C18: VIDValue.fromString, and the adapter's fromString and toCursor,
\* accept every 29-character text over A-Z, 2-7, the text form of an
\* identifier value among them, and yield the 18 bytes it decodes to.
C18_TextFormAccepted ==
    (checked.kind = "fromString" /\ Len(checked.text) = 29
        /\ ~HasOddCharacter(checked.text)) =>
        /\ checked.result = Returned(decode(checked.text).value)
        /\ checked.adapter = checked.result

(***************************************************************************)
(* VIDParser                                                               *)
(***************************************************************************)
OFFSET_KEY_VERSION == 0

OFFSET_TIMESTAMP_HIGH == 1

OFFSET_TIMESTAMP_LOW == 5

OFFSET_NODE_ID == 7

OFFSET_SEQUENCE == 9

OFFSET_SIGNATURE == 11

\* 1577836800000, 2020-01-01T00:00:00.000Z
MIN_TIMESTAMP == Ms(0, 367, 24166, 59392)

\* DataView.getUint32 at a 0-based offset, as two 16-bit halves
getUint32(binary, offset) ==
    <<getUint16(binary, offset), getUint16(binary, offset + 2)>>

\* Number.isSafeInteger of a four-limb number: below 2^53
isSafeInteger(x) == x[1] < 32

\* new Date(timestamp).toISOString(): a text determined by the time value
toISOString(timestamp) == <<"iso", timestamp>>

\* VIDParser.decodeString: a failure of Base32Encoder.decode becomes an Error
decodedOrError(decoded) ==
    IF ~decoded.ok THEN Raised("Error") ELSE Returned(decoded.value)

\* VIDParser.decodeString once the input is trimmed and upper-cased
decodeNormalized(normalized) ==
    IF Len(normalized) # VID_STRING_LENGTH THEN Raised("RangeError")
    ELSE IF ~BASE32_REGEX(normalized) THEN Raised("Error")
    ELSE decodedOrError(decode(normalized))

\* VIDParser.decodeString
decodeString(input) == decodeNormalized(toUpperCase(trim(input)))

\* VIDParser.normalizeToBinary
parserNormalizeToBinary(input) ==
    IF input.type \in {"null", "undefined"} THEN Raised("TypeError")
    ELSE IF input.type \in {"VIDValue", "Buffer", "Uint8Array", "ArrayBuffer"}
        THEN Returned(input.value)
    ELSE IF input.type = "string" THEN decodeString(input.value)
    ELSE Raised("TypeError")

getSequence_whenUnsigned(binary) ==
    IF SameByte(getUint8(binary, OFFSET_SIGNATURE), 0)
        THEN getUint16(binary, OFFSET_SEQUENCE)
        ELSE 0

\* VIDParser.parse: the sequence field
getSequence(binary) == getUint16(binary, OFFSET_SEQUENCE)

parseFields_clamped(binary, timestamp) ==
    Returned([keyVersion |-> getUint8(binary, OFFSET_KEY_VERSION),
              timestamp |-> IF MsLess(timestamp, MIN_TIMESTAMP)
                                THEN MIN_TIMESTAMP ELSE timestamp,
              date |-> timestamp,
              iso |-> toISOString(timestamp),
              nodeId |-> getUint16(binary, OFFSET_NODE_ID),
              sequence |-> getSequence(binary)])

\* VIDParser.parse once the timestamp is decoded
parseFields(binary, timestamp) ==
    IF ~isSafeInteger(timestamp) THEN Raised("RangeError")
    ELSE IF MsLess(timestamp, MIN_TIMESTAMP) \/ MsLess(MAX_TIMESTAMP, timestamp)
        THEN Raised("RangeError")
    ELSE Returned([keyVersion |-> getUint8(binary, OFFSET_KEY_VERSION),
                   timestamp |-> timestamp,
                   date |-> timestamp,
                   iso |-> toISOString(timestamp),
                   nodeId |-> getUint16(binary, OFFSET_NODE_ID),
                   sequence |-> getSequence(binary)])

parseTimestamp_low32(timestampHigh, timestampLow) ==
    Ms(0, 0, timestampHigh[2], timestampLow)

\* timestampHigh * TIMESTAMP_HIGH_MULTIPLIER + timestampLow
parseTimestamp(timestampHigh, timestampLow) ==
    Ms(0, timestampHigh[1], timestampHigh[2], timestampLow)

\* VIDParser.parse once the input is normalized
parseBinary(binary) ==
    IF Len(binary) # VID_BYTE_LENGTH THEN Raised("RangeError")
    ELSE parseFields(binary,
             parseTimestamp(getUint32(binary, OFFSET_TIMESTAMP_HIGH),
                            getUint16(binary, OFFSET_TIMESTAMP_LOW)))

\* VIDParser.parse after normalizeToBinary answered
parseNormalized(normalized) ==
    IF ~normalized.ok THEN normalized ELSE parseBinary(normalized.value)

\* VIDParser.parse
parserParse(input) == parseNormalized(parserNormalizeToBinary(input))

(***************************************************************************)
(* VID.parse                                                               *)
(***************************************************************************)
\* parse called without options
NoOptions == [given |-> FALSE]

\* ParseOptions given with verify being the JavaScript value v
OptionsWith(v) == [given |-> TRUE, verify |-> v]

shouldVerify_whenAsked(options) == options.given /\ options.verify = "true"

\* options?.verify !== false
shouldVerify(options) == ~(options.given /\ options.verify = "false")

\* VID.parse: the verification step; TRUE when it lets the input through
verifiedOrSkipped(input, options, keyMap) ==
    shouldVerify(options) => verifyDetailed(input, keyMap) = Valid

\* VID.parse on a facade whose keys are keyMap
vidParse(input, options, keyMap) ==
    IF verifiedOrSkipped(input, options, keyMap) THEN parserParse(input)
    ELSE Raised("Error")

(***************************************************************************)
(* ParseSpec: one facade that has minted, and inputs handed to VID.parse.  *)
(***************************************************************************)
\* the facade of VIDInitOptions {keys: RotationKeys[k], nodeId: 258} after
\* generate() at time t returned the identifier with sequence number seq;
\* t is the last millisecond of 2019, the first of 2020, one in 2026, the
\* largest 48-bit time, or a time near the epoch
ParseInit ==
    \E k \in DOMAIN RotationKeys, seq \in {0, MAX_SEQUENCE},
       t \in {Ms(0, 367, 24166, 59391), MIN_TIMESTAMP, Ms(0, 417, 37930, 4660),
              MAX_TIMESTAMP, Ms(0, 0, 1, 0)} :
        /\ keys = [f \in {1} |-> RotationKeys[k]]
        /\ currentKeyVersion =
              [f \in {1} |-> CHOOSE v \in DOMAIN RotationKeys[k] : TRUE]
        /\ nodeId = [f \in {1} |-> 258]
        /\ lastTimestamp = [f \in {1} |-> t]
        /\ sequence = [f \in {1} |-> seq]
        /\ pc = [f \in {1} |-> "idle"]
        /\ waited = [f \in {1} |-> 0]
        /\ clock = t
        /\ lastIssued = [f \in {1} |-> Identifier(ConfigOf(f), t, seq)]
        /\ prevIssued = [f \in {1} |-> NoId]
        /\ issued = [f \in {1} |-> <<lastIssued[f]>>]
        /\ outcome = [f \in {1} |-> "id"]
        /\ clamped = [f \in {1} |-> FALSE]
        /\ frozen = FALSE
        /\ calls = 0
        /\ waits = 0
        /\ budget = MaxCalls
        /\ checked = Unchecked
        /\ heap = EmptyHeap

\* VID.parse(input, options) on facade f, next to VID.verifyDetailed(input),
\* VIDParser.parse(input), VIDParser.parse of the input with three other
\* signatures in bytes 11-17, and VID.parse(input, {verify: false}) of
\* facades with other keys
Parse(f, input, options) ==
    /\ checked = Unchecked
    /\ checked' =
          [kind |-> "parse", input |-> input, options |-> options,
           accepted |-> verifyDetailed(input, keys[f]),
           result |-> vidParse(input, options, keys[f]),
           structural |-> parserParse(input),
           resigned |->
               IF input.type \in {"null", "undefined", "number", "string"}
                  \/ Len(input.value) # VID_BYTE_LENGTH
               THEN {}
               ELSE {parserParse(Input(input.type,
                         concat(subarray(input.value, 0, OFFSET_SIGNATURE),
                                tail))) :
                        tail \in {[i \in 1..SIGNATURE_BYTES |-> 0],
                                  [i \in 1..SIGNATURE_BYTES |-> MAX_UINT8],
                                  [i \in 1..SIGNATURE_BYTES |->
                                      (i * 37) % 256]}},
           rekeyed |-> {vidParse(input, OptionsWith("false"), RotationKeys[k]) :
                           k \in DOMAIN RotationKeys}]
    /\ UNCHANGED <<genVars, clock, issued, countVars, budget, heap>>
    /\ UNCHANGED facadeVars

\* texts handed to parse: of a binary the parser accepts and of one dated
\* 1970, respelt, with a character outside the alphabet, and cut short
ParseTexts ==
    LET late == encode([i \in 1..VID_BYTE_LENGTH |-> MAX_UINT8]).value
        early == encode([i \in 1..VID_BYTE_LENGTH |-> 1]).value
    IN  Rewritings(late) \cup Rewritings(early)
        \cup {[late EXCEPT ![15] = "1"], SubSeq(late, 1, 28),
              <<"n", "o", "t", "-", "b", "a", "s", "e", "3", "2", "!", "!">>}

\* the facade mints again, and parse is called without options or with
\* verify true, false, undefined, null or 0, on the minted identifier in each
\* form, on the identifier with one byte altered, on plain byte arrays, on
\* texts, and on non-inputs
ParseNext ==
    \/ checked = Unchecked /\ BoundedMint
    \/ \E f \in Facades,
       options \in {NoOptions, OptionsWith("true"), OptionsWith("false"),
                    OptionsWith("undefined"), OptionsWith("null"),
                    OptionsWith("0")} :
        \/ \E type \in {"VIDValue", "Uint8Array", "Buffer", "ArrayBuffer"} :
              Parse(f, Input(type, lastIssued[f]), options)
        \/ \E pos \in {1, 2, OFFSET_SEQUENCE + 2, OFFSET_SIGNATURE + 1,
                      VID_BYTE_LENGTH} :
              \E r \in Replacements(lastIssued[f], pos) :
                  Parse(f, Input("Uint8Array",
                                 [lastIssued[f] EXCEPT ![pos] = r]), options)
        \/ \E b \in PlainBinaries : Parse(f, Input("Uint8Array", b), options)
        \/ \E t \in ParseTexts : Parse(f, Input("string", t), options)
        \/ \E type \in {"null", "undefined", "number"} :
              Parse(f, Input(type, <<>>), options)

ParseSpec == ParseInit /\ [][ParseNext]_vars

\* C19: VID.parse without options, or with options.verify other than false,
\* returns metadata only for inputs verifyDetailed accepts and raises for
\* every input it does not accept; with {verify: false} the result is that
\* of VIDParser.parse.
C19_ParseAuthenticatesByDefault ==
    checked.kind = "parse" =>
        IF checked.options = OptionsWith("false")
            THEN checked.result = checked.structural
            ELSE /\ checked.result.ok => checked.accepted = Valid
                 /\ checked.accepted # Valid =>
                       (~checked.result.ok /\ checked.result.error = "Error")

C19_Witness ==
    /\ checked.kind = "parse"
    /\ checked.options = NoOptions
    /\ checked.input.type = "VIDValue"
    /\ checked.accepted = Valid
    /\ checked.result.ok
    /\ checked.result.value.timestamp = MIN_TIMESTAMP
    /\ checked.result.value.sequence = MAX_SEQUENCE

\* C20: 18-byte inputs that agree on bytes 0-10 get the same outcome from
\* VIDParser.parse whatever bytes 11-17 are, the same fields or a rejection
\* in both cases, and the outcome is the same whatever keys a facade holds.
C20_ParseIgnoresSignature ==
    (checked.kind = "parse"
        /\ checked.input.type \in {"VIDValue", "Uint8Array", "Buffer",
                                   "ArrayBuffer"}
        /\ Len(checked.input.value) = 18) =>
        /\ checked.resigned = {checked.structural}
        /\ checked.rekeyed = {checked.structural}

C20_Witness ==
    /\ checked.kind = "parse"
    /\ checked.accepted = Invalid("SIGNATURE_MISMATCH")
    /\ checked.structural.ok
    /\ checked.structural.value.sequence = MAX_SEQUENCE
    /\ checked.structural.value.nodeId = 258
    /\ checked.resigned = {checked.structural}

\* C21: for keyVersion in 0..255, a timestamp in 0..2^48-1, nodeId and
\* sequence in 0..65535, encodePayload gives 11 bytes holding keyVersion at
\* offset 0, floor(timestamp / 65536) in 32 bits at offset 1, timestamp mod
\* 65536 at offset 5, nodeId at 7 and sequence at 9, all big-endian, and the
\* parser reads the four values back.
C21_FieldsPackedExactly ==
    checked.kind = "fields" =>
        /\ Len(checked.payload) = 11
        /\ checked.payload[1] = checked.keyVersion
        /\ checked.payload[2] = checked.timestamp[2] \div 256
        /\ checked.payload[3] = checked.timestamp[2] % 256
        /\ checked.payload[4] = checked.timestamp[3] \div 256
        /\ checked.payload[5] = checked.timestamp[3] % 256
        /\ checked.payload[6] = checked.timestamp[4] \div 256
        /\ checked.payload[7] = checked.timestamp[4] % 256
        /\ checked.payload[8] = checked.nodeId \div 256
        /\ checked.payload[9] = checked.nodeId % 256
        /\ checked.payload[10] = checked.sequence \div 256
        /\ checked.payload[11] = checked.sequence % 256
        /\ checked.read = [keyVersion |-> checked.keyVersion,
                           timestamp |-> checked.timestamp,
                           nodeId |-> checked.nodeId,
                           sequence |-> checked.sequence]

C21_Witness ==
    /\ checked.kind = "fields"
    /\ checked.keyVersion = 128
    /\ checked.timestamp = <<0, 32768, 258, 772>>
    /\ checked.nodeId = 258
    /\ checked.sequence = 4660
    /\ checked.payload = <<128, 128, 0, 1, 2, 3, 4, 1, 2, 18, 52>>
    /\ checked.read.timestamp = checked.timestamp

C30_DecodeErrorUnreachable ==
    checked.kind = "input" =>
        /\ checked.detailed # Invalid("DECODE_ERROR")
        /\ (checked.input.type = "string"
                /\ Len(Normalized(checked.input)) = 29
                /\ ~HasOddCharacter(Normalized(checked.input))) =>
              checked.detailed \in {Valid, Invalid("UNKNOWN_KEY_VERSION"),
                                    Invalid("SIGNATURE_MISMATCH")}

\* a lower-case text starting with 7, led by a tab, reaches the signature
\* check
C30_Witness ==
    /\ checked.kind = "input"
    /\ checked.input.type = "string"
    /\ Len(checked.input.value) = 30
    /\ checked.input.value[1] = "TAB"
    /\ checked.input.value[2] = "7"
    /\ checked.detailed \in {Invalid("UNKNOWN_KEY_VERSION"),
                            Invalid("SIGNATURE_MISMATCH")}

\* C28 as stated: VID.parse(id) on the identifier VID.generate() of the same
\* facade just returned gives metadata, with the key version, timestamp,
\* node id and sequence number of that mint.
C28_MintedIdentifierParses ==
    (checked.kind = "parse" /\ outcome[1] = "id"
        /\ checked.input = Input("VIDValue", lastIssued[1])
        /\ checked.options = NoOptions) =>
        /\ checked.result.ok
        /\ checked.result.value.keyVersion = currentKeyVersion[1]
        /\ checked.result.value.timestamp = lastTimestamp[1]
        /\ checked.result.value.nodeId = nodeId[1]
        /\ checked.result.value.sequence = sequence[1]

\* C28, amended: so it is when the timestamp of the mint is 1577836800000
\* or later; an identifier minted with an earlier timestamp is authenticated
\* and then refused by the parser.
C28_MintedIdentifierParsesFrom2020 ==
    (checked.kind = "parse" /\ outcome[1] = "id"
        /\ checked.input = Input("VIDValue", lastIssued[1])
        /\ checked.options = NoOptions) =>
        /\ checked.accepted = Valid
        /\ IF MsLess(lastTimestamp[1], MIN_TIMESTAMP)
             THEN checked.result = Raised("RangeError")
             ELSE /\ checked.result.ok
                  /\ checked.result.value.keyVersion = currentKeyVersion[1]
                  /\ checked.result.value.timestamp = lastTimestamp[1]
                  /\ checked.result.value.nodeId = nodeId[1]
                  /\ checked.result.value.sequence = sequence[1]

\* the second identifier minted in one millisecond of 2026 is parsed
C28_Witness ==
    /\ checked.kind = "parse"
    /\ checked.input = Input("VIDValue", lastIssued[1])
    /\ checked.options = NoOptions
    /\ Len(issued[1]) = 2
    /\ lastTimestamp[1] = <<0, 417, 37930, 4660>>
    /\ checked.result.ok
    /\ checked.result.value.sequence = 1

(***************************************************************************)
(* VID.initialize and NodeIdResolver.  A JavaScript value is a record with *)
(* its type: "integer" for a number that Number.isInteger accepts,         *)
(* with the number it is, "fraction" and "NaN" for the other numbers,     *)
(* "string" with the sequence of its characters, "object", "array",        *)
(* "null", "undefined", "boolean".                                         *)
(***************************************************************************)
MIN_SECRET_CHARS == 16

MAX_KEY_VERSION == 255

MAX_NODE_ID == 65535

\* Number(versionStr) for the key of an object: decimal integers, with a
\* sign or a fractional part, surrounded by white space; the empty text is 0
Number(text) ==
    LET t == trim(text)
        dots == {i \in 1..Len(t) : t[i] = "."}
        RECURSIVE value(_)
        value(s) ==
            IF s = <<>> THEN 0
            ELSE 10 * value(SubSeq(s, 1, Len(s) - 1))
                 + (IndexOf(Digits, s[Len(s)]) - 1)
        digits(s) == \A i \in 1..Len(s) : s[i] \in Range(Digits)
    IN
    IF digits(t) THEN [type |-> "integer", number |-> value(t)]
    ELSE IF t[1] = "-" /\ Len(t) > 1 /\ digits(Tail(t))
        THEN [type |-> "integer", number |-> 0 - value(Tail(t))]
    ELSE IF /\ dots # {}
            /\ Len(t) > 1
            /\ \A i \in dots, j \in dots : i = j
            /\ \A i \in 1..Len(t) : (i \in dots \/ t[i] \in Range(Digits))
        THEN IF \A i \in 1..Len(t) : \A d \in dots : i > d => t[i] = "0"
                THEN Input("integer",
                           value(SubSeq(t, 1, (CHOOSE d \in dots : TRUE) - 1)))
                ELSE Input("fraction", <<>>)
    ELSE Input("NaN", <<>>)

\* new TextEncoder().encode(secret).length: one byte for a character up to
\* U+007F, two up to U+07FF
utf8Length(secret) ==
    Len(secret)
    + Cardinality({i \in 1..Len(secret) : charCodeAt(secret[i]) > MAX_ASCII})

\* VID.validateOptions: the name of the error thrown, or "none".
\* options.keys is given by Object.entries(options.keys).
validateOptions(options) ==
    LET entryError(entry) ==
            IF Number(entry.key).type # "integer"
               \/ Number(entry.key).number < 0
               \/ Number(entry.key).number > MAX_KEY_VERSION
                THEN "RangeError"
            ELSE IF entry.secret.type # "string" THEN "TypeError"
            ELSE IF utf8Length(entry.secret.value) < MIN_SECRET_CHARS
                THEN "RangeError"
            ELSE "none"
    IN
    IF options.type \in {"null", "undefined"} THEN "TypeError"
    ELSE IF options.type # "object" THEN "TypeError"
    ELSE IF options.keys.type \in {"null", "undefined"} THEN "TypeError"
    ELSE IF options.keys.type # "object" THEN "TypeError"
    ELSE IF Len(options.keys.value) = 0 THEN "RangeError"
    ELSE IF \E i \in 1..Len(options.keys.value) :
                entryError(options.keys.value[i]) # "none"
        THEN entryError(options.keys.value[
                 CHOOSE i \in 1..Len(options.keys.value) :
                     /\ entryError(options.keys.value[i]) # "none"
                     /\ \A j \in 1..(i - 1) :
                            entryError(options.keys.value[j]) = "none"])
    ELSE IF options.currentKeyVersion.type # "integer" THEN "TypeError"
    ELSE IF options.currentKeyVersion.number < 0
            \/ options.currentKeyVersion.number > MAX_KEY_VERSION
        THEN "RangeError"
    ELSE IF ~\E i \in 1..Len(options.keys.value) :
                /\ Number(options.keys.value[i].key)
                       = options.currentKeyVersion
                /\ \A c \in Range(options.keys.value[i].key) :
                       c \in Range(Digits)
                /\ Len(options.keys.value[i].key) > 1 =>
                       options.keys.value[i].key[1] # "0"
                /\ options.keys.value[i].key # <<>>
        THEN "Error"
    ELSE IF options.nodeId.type \in {"integer", "fraction", "NaN"}
            /\ (\/ options.nodeId.type # "integer"
                \/ options.nodeId.number < 0
                \/ options.nodeId.number > MAX_NODE_ID)
        THEN "RangeError"
    ELSE "none"

hashToUint16_wide(input) == MAX_UINT16 + 1

\* NodeIdResolver.hashToUint16: the first two bytes of the SHA-256 digest of
\* the text, big-endian, for the texts that are hashed here
hashToUint16(input) ==
    LET hash ==
            CASE input = <<"n", "o", "d", "e", "-", "a">> -> <<102, 87>>
              [] input = <<"1", "0", ".", "0", ".", "0", ".", "7">>
                    -> <<19, 14>>
              [] input = <<"w", "e", "b", "-", "1">> -> <<196, 113>>
    IN hash[1] * 256 + hash[2]

\* NodeIdResolver.resolve(explicitNodeId) when process.env is env and
\* crypto.randomInt(0, 65536) gives randomNodeId
resolve(explicitNodeId, env, randomNodeId) ==
    IF explicitNodeId.type \in {"integer", "fraction", "NaN"}
        THEN IF \/ explicitNodeId.type # "integer"
                \/ explicitNodeId.number < 0
                \/ explicitNodeId.number > MAX_UINT16
                THEN Raised("RangeError")
                ELSE Returned([nodeId |-> explicitNodeId.number,
                               source |-> "explicit_number",
                               warning |-> FALSE])
    ELSE IF explicitNodeId.type = "string"
        THEN IF Len(trim(explicitNodeId.value)) = 0
                THEN Raised("TypeError")
                ELSE Returned([nodeId |->
                                   hashToUint16(trim(explicitNodeId.value)),
                               source |-> "explicit_string",
                               warning |-> FALSE])
    ELSE IF /\ env.POD_IP.type = "string"
            /\ Len(env.POD_IP.value) > 0
            /\ Len(trim(env.POD_IP.value)) > 0
        THEN Returned([nodeId |-> hashToUint16(trim(env.POD_IP.value)),
                       source |-> "pod_ip", warning |-> FALSE])
    ELSE IF /\ env.HOSTNAME.type = "string"
            /\ Len(env.HOSTNAME.value) > 0
            /\ Len(trim(env.HOSTNAME.value)) > 0
        THEN Returned([nodeId |-> hashToUint16(trim(env.HOSTNAME.value)),
                       source |-> "hostname", warning |-> FALSE])
    ELSE Returned([nodeId |-> randomNodeId, source |-> "random",
                   warning |-> TRUE])

\* VID.initialize(options): validateOptions, then the constructor derives a
\* key for every entry, a later entry replacing an earlier one of the same
\* version, and resolves the node identity.  The facade gets a generator in
\* its initial state; nothing is created when either step throws.
Initialize(options, env, randomNodeId) ==
    /\ Facades = {}
    /\ checked = Unchecked
    /\ IF validateOptions(options) # "none"
         THEN /\ checked' = [kind |-> "initialize", options |-> options,
                             env |-> env,
                             result |-> Raised(validateOptions(options))]
              /\ UNCHANGED <<genVars, issued>>
              /\ UNCHANGED facadeVars
       ELSE IF ~resolve(options.nodeId, env, randomNodeId).ok
         THEN /\ checked' = [kind |-> "initialize", options |-> options,
                             env |-> env,
                             result |->
                                 resolve(options.nodeId, env, randomNodeId)]
              /\ UNCHANGED <<genVars, issued>>
              /\ UNCHANGED facadeVars
       ELSE /\ checked' = [kind |-> "initialize", options |-> options,
                           env |-> env,
                           result |->
                               resolve(options.nodeId, env, randomNodeId)]
            /\ keys' =
                 <<[version \in {Number(options.keys.value[i].key).number :
                                    i \in 1..Len(options.keys.value)} |->
                      deriveKey(options.keys.value[
                          CHOOSE i \in 1..Len(options.keys.value) :
                              /\ Number(options.keys.value[i].key).number
                                     = version
                              /\ \A j \in (i + 1)..Len(options.keys.value) :
                                     Number(options.keys.value[j].key).number
                                         # version].secret.value)]>>
            /\ currentKeyVersion' = <<options.currentKeyVersion.number>>
            /\ nodeId' =
                 <<resolve(options.nodeId, env, randomNodeId).value.nodeId>>
            /\ lastTimestamp' = <<MsZero>>
            /\ sequence' = <<0>>
            /\ pc' = <<"idle">>
            /\ waited' = <<0>>
            /\ lastIssued' = <<NoId>>
            /\ prevIssued' = <<NoId>>
            /\ issued' = <<<<>>>>
            /\ outcome' = <<"none">>
            /\ clamped' = <<FALSE>>
    /\ UNCHANGED <<clock, countVars, budget, heap>>

\* VIDGenerator.resolveNodeId
resolveNodeId(node) ==
    IF node.type = "string"
        THEN IF Len(trim(node.value)) = 0 THEN Raised("TypeError")
             ELSE Returned(hashToUint16(trim(node.value)))
    ELSE IF node.type \in {"integer", "fraction", "NaN"}
        THEN IF \/ node.type # "integer"
                \/ node.number < 0
                \/ node.number > MAX_UINT16
                THEN Raised("RangeError")
                ELSE Returned(node.number)
    ELSE Raised("TypeError")

\* VIDGenerator.generate(config) on the generator of facade f, for a config
\* of the caller's making and a sequence that is not exhausted
GenerateWith(f, config) ==
    /\ pc[f] = "idle"
    /\ budget > 0
    /\ budget' = budget - 1
    /\ checked' = [kind |-> "generate", config |-> config, call |-> budget]
    /\ IF ~validateConfig(config) \/ ~resolveNodeId(config.nodeId).ok
         THEN /\ outcome' = [outcome EXCEPT ![f] = "config_error"]
              /\ UNCHANGED <<lastTimestamp, sequence, clamped, lastIssued,
                             prevIssued, issued>>
         ELSE /\ ~Exhausted(f)
              /\ sequence' = [sequence EXCEPT ![f] = NextSequence(f)]
              /\ lastTimestamp' = [lastTimestamp EXCEPT ![f] = ClampedNow(f)]
              /\ clamped' =
                    [clamped EXCEPT ![f] = MsLess(clock, lastTimestamp[f])]
              /\ IF MsLess(MAX_TIMESTAMP, ClampedNow(f))
                   THEN /\ outcome' =
                              [outcome EXCEPT ![f] = "timestamp_overflow"]
                        /\ UNCHANGED <<lastIssued, prevIssued, issued>>
                 ELSE IF signThrows(
                             encodePayload(config.keyVersion, ClampedNow(f),
                                 resolveNodeId(config.nodeId).value,
                                 NextSequence(f)),
                             config.secret)
                   THEN /\ outcome' = [outcome EXCEPT ![f] = "sign_error"]
                        /\ UNCHANGED <<lastIssued, prevIssued, issued>>
                 ELSE /\ outcome' = [outcome EXCEPT ![f] = "id"]
                      /\ lastIssued' =
                            [lastIssued EXCEPT ![f] =
                                Identifier(
                                    [keyVersion |-> config.keyVersion,
                                     nodeId |->
                                         resolveNodeId(config.nodeId).value,
                                     secret |-> config.secret],
                                    ClampedNow(f), NextSequence(f))]
                      /\ prevIssued' = [prevIssued EXCEPT ![f] = lastIssued[f]]
                      /\ issued' =
                            [issued EXCEPT ![f] = Append(@, lastIssued'[f])]
    /\ UNCHANGED <<pc, waited, clock, countVars, heap>>
    /\ UNCHANGED facadeVars

(***************************************************************************)
(* FacadeSpec: a facade is configured, then mints, is handed configs       *)
(* directly on its generator, and sees its clock run up to and past 2^48.  *)
(***************************************************************************)
\* Configurations tried: key mappings with secrets of 32, 16 and 15 ASCII
\* characters, of 8 two-byte characters, of a wrong type, under keys that
\* are, and are not, integers in 0..255, with every kind of current version;
\* node identities of every type with every environment; and options that
\* are not objects.  Then the fields a config handed to generate(config)
\* may carry in place of the facade's own.
FacadeInputs ==
    LET text(n, chars) == [i \in 1..n |-> chars[((i - 1) % Len(chars)) + 1]]
        secret32 == Input("string", text(32, Digits \o LowerCaseLetters))
        secret16 == Input("string", text(16, Digits \o LowerCaseLetters))
        integer(n) == [type |-> "integer", number |-> n]
        key(k, secret) == [key |-> k, secret |-> secret]
        object(entries, cur, node) ==
            [type |-> "object",
             keys |-> [type |-> "object", value |-> entries],
             currentKeyVersion |-> cur, nodeId |-> node]
        call(options, pod, host, randomNodeId) ==
            [options |-> options,
             env |-> [POD_IP |-> pod, HOSTNAME |-> host],
             randomNodeId |-> randomNodeId]
        undefined == Input("undefined", <<>>)
    IN
    [initialize |->
        {call(object(entries, cur, integer(258)), undefined, undefined, 0) :
            entries \in
                {<<>>,
                 <<key(<<"1">>, secret32)>>,
                 <<key(<<"1">>, secret32), key(<<"2">>, secret16)>>,
                 <<key(<<"0">>, secret16), key(<<"2", "5", "5">>, secret32)>>,
                 <<key(<<"1">>, secret16), key(<<"0", "1">>, secret32)>>,
                 <<key(<<>>, secret16)>>,
                 <<key(<<"1">>, Input("string", text(15, Digits)))>>,
                 <<key(<<"1">>, Input("string", text(8, <<"e-acute">>)))>>,
                 <<key(<<"1">>, Input("string", <<>>))>>,
                 <<key(<<"1">>, integer(42))>>,
                 <<key(<<"1">>, secret32), key(<<"2", "5", "6">>, secret32)>>,
                 <<key(<<"-", "1">>, secret32)>>,
                 <<key(<<"1", ".", "5">>, secret32)>>,
                 <<key(<<"v", "1">>, secret32)>>},
            cur \in {integer(v) : v \in {-1, 0, 1, 2, MAX_KEY_VERSION,
                                          MAX_KEY_VERSION + 1}}
                    \cup {Input("fraction", <<>>), Input("string", <<"1">>),
                          undefined}}
        \cup
        {call(object(<<key(<<"1">>, secret32)>>, integer(1), node),
              pod, host, randomNodeId) :
            node \in {integer(v) : v \in {-1, 0, 258, MAX_NODE_ID,
                                           MAX_NODE_ID + 1}}
                     \cup {Input("fraction", <<>>), Input("NaN", <<>>),
                           Input("string", <<"n", "o", "d", "e", "-", "a">>),
                           Input("string",
                                 <<" ", "n", "o", "d", "e", "-", "a", "TAB">>),
                           Input("string", <<>>), Input("string", <<" ">>),
                           undefined, Input("null", <<>>),
                           Input("boolean", <<>>)},
            pod \in {undefined, Input("string", <<>>),
                     Input("string", <<" ">>),
                     Input("string",
                           <<"1", "0", ".", "0", ".", "0", ".", "7">>)},
            host \in {undefined, Input("string", <<>>),
                      Input("string", <<"w", "e", "b", "-", "1">>)},
            randomNodeId \in {0, MAX_UINT16}}
        \cup
        {call(options, undefined, undefined, 0) :
            options \in
                {[type |-> "null"], [type |-> "undefined"],
                 [type |-> "string"], [type |-> "array"],
                 [type |-> "object", keys |-> Input("null", <<>>)],
                 [type |-> "object", keys |-> undefined],
                 [type |-> "object", keys |-> Input("string", <<>>)],
                 [type |-> "object", keys |-> Input("array", <<>>)]}},
     nodeId |->
        {Input("string", <<"n", "o", "d", "e", "-", "a">>),
         Input("string", <<>>), Input("string", <<" ">>),
         integer(-1), integer(258), integer(MAX_UINT16 + 1),
         Input("fraction", <<>>), Input("NaN", <<>>),
         undefined, Input("boolean", <<>>)},
     validNodeId |-> integer(258),
     keyVersion |-> {-1, MAX_KEY_VERSION + 1},
     secret |->
        {Secret(<<"k">>, 0), Secret(<<"k">>, 16),
         Secret(<<"k">>, MIN_SECRET_BYTES - 1),
         Input("string", <<"k">>), undefined}]

\* Calls: VID.initialize, generate(config) with the config the facade's
\* generate() passes, or one that differs from it in one field, and clock
\* movements.
FacadeNext ==
    \/ \E call \in FacadeInputs.initialize :
          Initialize(call.options, call.env, call.randomNodeId)
    \/ \E f \in Facades :
          \E config \in
              {[ConfigOf(f) EXCEPT !.nodeId = node] :
                  node \in FacadeInputs.nodeId}
              \cup {[ConfigOf(f) EXCEPT !.nodeId = FacadeInputs.validNodeId,
                                        !.keyVersion = v] :
                       v \in FacadeInputs.keyVersion}
              \cup {[ConfigOf(f) EXCEPT !.nodeId = FacadeInputs.validNodeId,
                                        !.secret = k] :
                       k \in FacadeInputs.secret} :
              GenerateWith(f, config)
    \/ /\ ClockAdvance({MAX_TIMESTAMP, Ms(1, 0, 0, 0)})
       /\ UNCHANGED <<countVars, budget, issued>>
    \/ /\ ClockRegress({Ms(0, 0, 1, 0), MAX_TIMESTAMP})
       /\ UNCHANGED <<countVars, budget, issued>>

FacadeSpec == Fleet({}, <<>>, <<>>, <<>>, <<>>) /\ [][FacadeNext]_vars

\* C23: VID.initialize raises unless the key mapping is non-empty, every key
\* is an integer in 0..255, every secret is a string of at least 16
\* characters, and currentKeyVersion is an integer in 0..255 that is a key
\* of the mapping; so every facade holds a 32-byte derived secret for its
\* currentKeyVersion, and its generate() passes the generator's validation.
C23_ConfigurationValidated ==
    /\ (checked.kind = "initialize" /\ checked.result.ok) =>
          /\ Len(checked.options.keys.value) > 0
          /\ \A i \in 1..Len(checked.options.keys.value) :
                /\ Number(checked.options.keys.value[i].key).type = "integer"
                /\ Number(checked.options.keys.value[i].key).number
                       \in 0..255
                /\ checked.options.keys.value[i].secret.type = "string"
                /\ Len(checked.options.keys.value[i].secret.value) >= 16
          /\ checked.options.currentKeyVersion.type = "integer"
          /\ checked.options.currentKeyVersion.number \in 0..255
          /\ \E i \in 1..Len(checked.options.keys.value) :
                Number(checked.options.keys.value[i].key)
                    = checked.options.currentKeyVersion
    /\ \A f \in Facades :
          /\ currentKeyVersion[f] \in DOMAIN keys[f]
          /\ keys[f][currentKeyVersion[f]].len = 32
          /\ validateConfig(ConfigOf(f))

\* C24 as stated: with the other options valid, an explicit integer in
\* 0..65535 is the node id; any other explicit number raises; an explicit
\* empty string raises and a non-empty one is hashed; else a non-empty
\* POD_IP is hashed; else a non-empty HOSTNAME; else the id is random.  The
\* id is in 0..65535 and a warning comes exactly with a random id.
C24_ResolutionPriority ==
    (checked.kind = "initialize" /\ "nodeId" \in DOMAIN checked.options
        /\ validateOptions(
               [type |-> "object", keys |-> checked.options.keys,
                currentKeyVersion |-> checked.options.currentKeyVersion,
                nodeId |-> [type |-> "undefined"]]) = "none")
    =>
    /\ checked.options.nodeId.type = "integer" =>
          IF checked.options.nodeId.number \in 0..65535
            THEN checked.result =
                     Returned([nodeId |-> checked.options.nodeId.number,
                               source |-> "explicit_number",
                               warning |-> FALSE])
            ELSE ~checked.result.ok
    /\ checked.options.nodeId.type \in {"fraction", "NaN"} =>
          ~checked.result.ok
    /\ checked.options.nodeId.type = "string" =>
          IF Len(checked.options.nodeId.value) = 0
            THEN ~checked.result.ok
            ELSE /\ checked.result.ok
                 /\ checked.result.value.source = "explicit_string"
    /\ checked.options.nodeId.type
           \notin {"integer", "fraction", "NaN", "string"} =>
          /\ checked.result.ok
          /\ checked.result.value.source =
                IF /\ checked.env.POD_IP.type = "string"
                   /\ Len(checked.env.POD_IP.value) > 0
                    THEN "pod_ip"
                ELSE IF /\ checked.env.HOSTNAME.type = "string"
                        /\ Len(checked.env.HOSTNAME.value) > 0
                    THEN "hostname"
                ELSE "random"
    /\ checked.result.ok =>
          /\ checked.result.value.nodeId \in 0..65535
          /\ checked.result.value.warning
                <=> checked.result.value.source = "random"

\* C24, amended: a text counts as given when something is left of it after
\* trimming white space, and what is left is what is hashed.
C24_ResolutionPriorityTrimmed ==
    (checked.kind = "initialize" /\ "nodeId" \in DOMAIN checked.options
        /\ validateOptions(
               [type |-> "object", keys |-> checked.options.keys,
                currentKeyVersion |-> checked.options.currentKeyVersion,
                nodeId |-> [type |-> "undefined"]]) = "none")
    =>
    /\ checked.options.nodeId.type = "integer" =>
          IF checked.options.nodeId.number \in 0..65535
            THEN checked.result =
                     Returned([nodeId |-> checked.options.nodeId.number,
                               source |-> "explicit_number",
                               warning |-> FALSE])
            ELSE ~checked.result.ok
    /\ checked.options.nodeId.type \in {"fraction", "NaN"} =>
          ~checked.result.ok
    /\ checked.options.nodeId.type = "string" =>
          IF Len(trim(checked.options.nodeId.value)) = 0
            THEN ~checked.result.ok
            ELSE /\ checked.result.ok
                 /\ checked.result.value.source = "explicit_string"
                 /\ checked.result.value.nodeId = 26199
    /\ checked.options.nodeId.type
           \notin {"integer", "fraction", "NaN", "string"} =>
          /\ checked.result.ok
          /\ checked.result.value.source =
                IF /\ checked.env.POD_IP.type = "string"
                   /\ Len(trim(checked.env.POD_IP.value)) > 0
                    THEN "pod_ip"
                ELSE IF /\ checked.env.HOSTNAME.type = "string"
                        /\ Len(trim(checked.env.HOSTNAME.value)) > 0
                    THEN "hostname"
                ELSE "random"
    /\ checked.result.ok =>
          /\ checked.result.value.nodeId \in 0..65535
          /\ nodeId = <<checked.result.value.nodeId>>
          /\ checked.result.value.warning
                <=> checked.result.value.source = "random"

\* no explicit node id, a blank POD_IP, HOSTNAME "web-1": the host name is
\* hashed
C24_Witness ==
    /\ checked.kind = "initialize"
    /\ "nodeId" \in DOMAIN checked.options
    /\ checked.options.nodeId.type = "undefined"
    /\ checked.env.POD_IP = Input("string", <<" ">>)
    /\ checked.result.ok
    /\ checked.result.value.source = "hostname"
    /\ nodeId = <<50289>>

\* C26: a generate(config) call whose config has a keyVersion outside
\* 0..255, a secret that is not a Uint8Array of at least 32 bytes, or a
\* nodeId that is an empty string, out of range or of a wrong type leaves
\* the generator's lastTimestamp and sequence as they were before the call.
C26_ConfigCheckedBeforeState ==
    [][(/\ checked' # checked
        /\ checked'.kind = "generate"
        /\ \/ checked'.config.keyVersion \notin 0..255
           \/ "len" \notin DOMAIN checked'.config.secret
           \/ /\ "len" \in DOMAIN checked'.config.secret
              /\ checked'.config.secret.len < 32
           \/ /\ checked'.config.nodeId.type = "string"
              /\ Len(checked'.config.nodeId.value) = 0
           \/ /\ checked'.config.nodeId.type = "integer"
              /\ checked'.config.nodeId.number \notin 0..65535
           \/ checked'.config.nodeId.type \notin {"string", "integer"})
       => /\ lastTimestamp' = lastTimestamp
          /\ sequence' = sequence]_vars

\* after a mint, a config with a 31-byte secret was refused and the mint's
\* timestamp and sequence are still the generator's
C26_Witness ==
    /\ checked.kind = "generate"
    /\ "len" \in DOMAIN checked.config.secret
    /\ checked.config.secret.len = 31
    /\ \E f \in Facades :
          /\ outcome[f] = "config_error"
          /\ lastIssued[f] # NoId
          /\ lastTimestamp[f] = TimestampOf(lastIssued[f])
          /\ sequence[f] = SequenceOf(lastIssued[f])

\* C25: a mint made when the clock reads more than 2^48 - 1 fails with the
\* timestamp-overflow error and returns no identifier, and a mint made when
\* the clock reads a value within the 48-bit range returns an identifier,
\* whatever earlier mints of the generator did.
C25_OverflowConfinedToCall ==
    [][\A f \in Facades :
          (budget' < budget /\ outcome'[f] # "config_error") =>
              IF MsLess(MAX_TIMESTAMP, clock)
                THEN /\ outcome'[f] = "timestamp_overflow"
                     /\ lastIssued'[f] = lastIssued[f]
                ELSE /\ outcome'[f] = "id"
                     /\ lastIssued'[f] # lastIssued[f]]_vars

\* C27: a wait that ends on a clock reading above lastTimestamp (and within
\* the 48-bit range) ends with an identifier carrying that reading and
\* sequence 0, never with the clock-fault error.
C27_FaultOnlyWithoutAdvance ==
    [][\A f \in Facades :
          (/\ pc[f] = "waiting"
           /\ pc'[f] = "idle"
           /\ MsLess(lastTimestamp[f], clock)
           /\ MsLeq(clock, MAX_TIMESTAMP)) =>
              /\ outcome'[f] = "id"
              /\ TimestampOf(lastIssued'[f]) = clock
              /\ SequenceOf(lastIssued'[f]) = 0]_vars

\* C29: between mint calls, a generator's sequence is within 0..65535 and
\* its lastTimestamp within 0..2^48 - 1, also after a call that failed.
C29_GeneratorStateInRange ==
    \A f \in Facades :
        pc[f] = "idle" =>
            /\ sequence[f] \in 0..65535
            /\ MsLeq(MsZero, lastTimestamp[f])
            /\ MsLeq(lastTimestamp[f], MAX_TIMESTAMP)

====
